---- MODULE Spec2Model ----
(***************************************************************************)
(* gitlab-cli: the credential store (src/config.rs), the OAuth2 login and  *)
(* refresh flow (src/auth.rs) and the expiry gate every API command goes   *)
(* through (get_client / get_group_client in src/main.rs).                 *)
(*                                                                         *)
(* A CLI invocation is a process: it loads the config file into memory,    *)
(* runs one command and exits.  Two terminals can run invocations at the   *)
(* same time; they share the config file, the wall clock and the local     *)
(* callback port 7171.                                                     *)
(***************************************************************************)
EXTENDS Integers, Sequences, FiniteSets, TLC

(* ------------------------------ bounds -------------------------------- *)

\* The wall clock runs from 0 to MaxTime (seconds).
MaxTime == 2
\* The token endpoint mints token pairs 1..MaxGen.
MaxGen == 2

\* `ci wait` polls at most this many times in the model (the loop of the
\* program has no limit)
MaxPolls == 3

\* The queries of the callbacks applied on their own have at most this many
\* pairs
MaxPairs == 2

(* ------------------------- program constants -------------------------- *)

\* json["expires_in"].as_i64().unwrap_or(7200)
DefaultExpiresIn == 7200

(* ------------------------------ values -------------------------------- *)

\* Two CLI invocations can be in flight at once.
Procs == {1, 2}

\* Option<T>: None is the empty sequence, Some(x) the one-element sequence.
None == <<>>
Some(x) == <<x>>
IsSome(o) == Len(o) = 1
Unwrap(o) == o[1]

\* Credential strings.  A static token comes from `config --token` (id 1)
\* or from GITLAB_TOKEN (id 0); access and refresh tokens come in pairs
\* from one token response of the provider (id = the response's number).
StaticToken(i) == [kind |-> "static", id |-> i]
AccessToken(g) == [kind |-> "access", id |-> g]
RefreshTokenStr(g) == [kind |-> "refresh", id |-> g]

\* DEFAULT_CLIENT_ID
DefaultClientId == "41d48f9422ebd655dd9cf2947d6979681dfaddc6d0c56f7628f6ada59559af1e"

\* The values a host, a static token and a project take: on the command
\* line (--host, --token, --project) and in the environment (GITLAB_HOST,
\* GITLAB_TOKEN, GITLAB_PROJECT).
CliHost == "https://gitlab.example"
CliToken == StaticToken(1)
CliProject == "group/project"
EnvHost == "https://gitlab.example"
EnvToken == StaticToken(0)
EnvProject == "group/project"

\* No GITLAB_* variable is set.
NoEnv == [token |-> <<>>, host |-> <<>>, project |-> <<>>]

\* The environment of one invocation: which GITLAB_* variables are set.
Envs == [token : {None, Some(EnvToken)},
         host : {None, Some(EnvHost)},
         project : {None, Some(EnvProject)}]

(* --------------------------- src/config.rs ---------------------------- *)

\* struct OAuth2Config
OAuth2Config(cid, at, rt, exp) ==
    [client_id |-> cid, access_token |-> at, refresh_token |-> rt, expires_at |-> exp]

\* struct Config
Config(h, t, p, o) == [host |-> h, token |-> t, project |-> p, oauth2 |-> o]

\* Config::default()
DefaultConfig == Config(None, None, None, None)

\* is_expired with > for >=: a record is still good in the second it expires.
IsExpiredAfter(oauth2, t) == t > oauth2.expires_at

\* OAuth2Config::is_expired, evaluated when the clock shows t
IsExpired(oauth2, t) == t >= oauth2.expires_at

\* serde_json::to_string_pretty(self): host and project are always written
\* (null for None); token and oauth2 are skipped when None.
Serialize(cfg) ==
    LET base == [host |-> cfg.host, project |-> cfg.project]
    IN  IF IsSome(cfg.token) /\ IsSome(cfg.oauth2)
        THEN [host |-> cfg.host, project |-> cfg.project,
              token |-> Unwrap(cfg.token), oauth2 |-> Unwrap(cfg.oauth2)]
        ELSE IF IsSome(cfg.token)
        THEN [host |-> cfg.host, project |-> cfg.project, token |-> Unwrap(cfg.token)]
        ELSE IF IsSome(cfg.oauth2)
        THEN [host |-> cfg.host, project |-> cfg.project, oauth2 |-> Unwrap(cfg.oauth2)]
        ELSE base

\* serde_json::from_str(&content): a missing Option field is None.
Deserialize(json) ==
    Config(json.host,
           IF "token" \in DOMAIN json THEN Some(json.token) ELSE None,
           json.project,
           IF "oauth2" \in DOMAIN json THEN Some(json.oauth2) ELSE None)

\* Config::load with the file `file` (None: no file) and environment env
Load(file, env) ==
    LET config == IF IsSome(file) THEN Deserialize(Unwrap(file)) ELSE DefaultConfig
    IN  Config(IF IsSome(env.host) THEN env.host ELSE config.host,
               IF IsSome(env.token) THEN env.token ELSE config.token,
               IF IsSome(env.project) THEN env.project ELSE config.project,
               config.oauth2)

\* Config::save, when fs::write succeeds: the new content of the file
Save(cfg) == Some(Serialize(cfg))

\* Config::host
Host(cfg) == IF IsSome(cfg.host) THEN Unwrap(cfg.host) ELSE "https://gitlab.com"

\* get_access_token with the priority reversed: the static token wins.
GetAccessTokenStaticFirst(cfg, t) ==
    IF IsSome(cfg.token) THEN cfg.token
    ELSE IF IsSome(cfg.oauth2) /\ ~IsExpired(Unwrap(cfg.oauth2), t)
    THEN Some(Unwrap(cfg.oauth2).access_token)
    ELSE None

\* Config::get_access_token, evaluated when the clock shows t
GetAccessToken(cfg, t) ==
    IF IsSome(cfg.oauth2) /\ ~IsExpired(Unwrap(cfg.oauth2), t)
    THEN Some(Unwrap(cfg.oauth2).access_token)
    ELSE cfg.token

(* ---------------------------- src/auth.rs ----------------------------- *)

Gens == 1..MaxGen

\* The value of "expires_in" in a token response: None when the key is
\* absent, Some(n) for the JSON integer n, Fraction(n) for the JSON number
\* n.5.
Fraction(n) == <<n, 5>>

\* serde_json::Value::as_i64 on that value: Some for an integer only
AsI64(v) == IF Len(v) = 1 THEN Some(v[1]) ELSE None

\* The values the token endpoint puts in "expires_in" in the invocations of
\* the model: absent, or a number of seconds.
ExpiresInOpts == {None, Some(0), Some(1)}

\* JSON bodies of a token response: an object with or without each key.
TokenBody(a, r, e) == [access_token |-> a, refresh_token |-> r, expires_in |-> e]

CompleteBodies ==
    {TokenBody(Some(AccessToken(g)), Some(RefreshTokenStr(g)), e) :
        g \in Gens, e \in ExpiresInOpts}

IncompleteBodies ==
    {TokenBody(None, Some(RefreshTokenStr(1)), Some(1)),
     TokenBody(Some(AccessToken(1)), None, Some(1))}

\* What a POST to {host}/oauth/token can end in: no response at all, a
\* non-success status, or a success status with a body (None: a body that
\* is not JSON).
TokenResponse(s, b) == [status |-> s, body |-> b]

TokenResponses ==
    {TokenResponse("transport_error", None), TokenResponse("http_error", None),
     TokenResponse("success", None)}
    \cup {TokenResponse("success", Some(b)) : b \in CompleteBodies \cup IncompleteBodies}

\* Result<T>
Ok(v) == [ok |-> TRUE, value |-> Some(v), error |-> ""]
Err(msg) == [ok |-> FALSE, value |-> None, error |-> msg]

\* parse_token_response with unwrap_or_default() for expires_in: a response
\* without expires_in yields a record that expires at once.
ParseTokenResponseNoDefault(client_id, body, t) ==
    IF ~IsSome(body) THEN Err("Failed to parse token response")
    ELSE LET json == Unwrap(body)
         IN  IF ~IsSome(json.access_token) THEN Err("Missing access_token")
             ELSE IF ~IsSome(json.refresh_token) THEN Err("Missing refresh_token")
             ELSE LET expires_in == IF IsSome(AsI64(json.expires_in))
                                    THEN Unwrap(AsI64(json.expires_in))
                                    ELSE 0
                  IN  Ok(OAuth2Config(client_id,
                                      Unwrap(json.access_token),
                                      Unwrap(json.refresh_token),
                                      t + expires_in))

\* parse_token_response with unwrap_or_default() for the two tokens: a
\* missing token becomes the empty one.
ParseTokenResponseLenient(client_id, body, t) ==
    IF ~IsSome(body) THEN Err("Failed to parse token response")
    ELSE LET json == Unwrap(body)
             expires_in == IF IsSome(AsI64(json.expires_in))
                           THEN Unwrap(AsI64(json.expires_in))
                           ELSE DefaultExpiresIn
         IN  Ok(OAuth2Config(client_id,
                             IF IsSome(json.access_token) THEN Unwrap(json.access_token)
                             ELSE AccessToken(0),
                             IF IsSome(json.refresh_token) THEN Unwrap(json.refresh_token)
                             ELSE RefreshTokenStr(0),
                             t + expires_in))

\* parse_token_response(client_id, body), run when the clock shows t
ParseTokenResponse(client_id, body, t) ==
    IF ~IsSome(body) THEN Err("Failed to parse token response")
    ELSE LET json == Unwrap(body)
         IN  IF ~IsSome(json.access_token) THEN Err("Missing access_token")
             ELSE IF ~IsSome(json.refresh_token) THEN Err("Missing refresh_token")
             ELSE LET expires_in == IF IsSome(AsI64(json.expires_in))
                                    THEN Unwrap(AsI64(json.expires_in))
                                    ELSE DefaultExpiresIn
                  IN  Ok(OAuth2Config(client_id,
                                      Unwrap(json.access_token),
                                      Unwrap(json.refresh_token),
                                      t + expires_in))

\* The part of exchange_code after the response arrived
ExchangeResult(client_id, response, t) ==
    IF response.status = "transport_error" THEN Err("Failed to exchange authorization code")
    ELSE IF response.status # "success" THEN Err("Token exchange failed")
    ELSE ParseTokenResponse(client_id, response.body, t)

\* The part of refresh_token after the response arrived, up to the parse
RefreshResult(client_id, response, t) ==
    IF response.status = "transport_error" THEN Err("Failed to refresh token")
    ELSE IF response.status # "success" THEN Err("Token refresh failed")
    ELSE ParseTokenResponse(client_id, response.body, t)

(* ------------------------------ strings ------------------------------- *)

\* The i-th character of the string s
CharAt(s, i) == SubSeq(s, i, i)

\* char::is_whitespace, for the characters a request line carries
IsWhitespace(c) == c \in {" ", "\t", "\r", "\n"}

\* str::find(c): the index of the first c in s, 0 for None
Find(s, c) ==
    LET at == {i \in 1..Len(s) : CharAt(s, i) = c}
    IN  IF at = {} THEN 0 ELSE CHOOSE i \in at : \A j \in at : i <= j

\* str::split(c): the pieces between the c's, empty pieces included
RECURSIVE Split(_, _)
Split(s, c) ==
    LET i == Find(s, c)
    IN  IF i = 0 THEN <<s>>
        ELSE <<SubSeq(s, 1, i - 1)>> \o Split(SubSeq(s, i + 1, Len(s)), c)

\* str::splitn(2, c): the piece before the first c and, if there is a c, the rest
SplitN2(s, c) ==
    LET i == Find(s, c)
    IN  IF i = 0 THEN <<s>>
        ELSE <<SubSeq(s, 1, i - 1), SubSeq(s, i + 1, Len(s))>>

\* str::split_whitespace: the maximal runs of non-whitespace characters
RECURSIVE SplitWhitespace(_)
SplitWhitespace(s) ==
    IF s = "" THEN <<>>
    ELSE IF IsWhitespace(CharAt(s, 1)) THEN SplitWhitespace(Tail(s))
    ELSE LET ends == {i \in 1..Len(s) : IsWhitespace(CharAt(s, i))}
             stop == IF ends = {} THEN Len(s) + 1
                     ELSE CHOOSE i \in ends : \A j \in ends : i <= j
         IN  <<SubSeq(s, 1, stop - 1)>> \o SplitWhitespace(SubSeq(s, stop, Len(s)))

\* The value of a hexadecimal digit, -1 for any other character
HexDigits == "0123456789ABCDEF"
HexValue(c) ==
    LET u == CASE c = "a" -> "A" [] c = "b" -> "B" [] c = "c" -> "C"
               [] c = "d" -> "D" [] c = "e" -> "E" [] c = "f" -> "F"
               [] OTHER -> c
    IN  Find(HexDigits, u) - 1

\* The printable ASCII characters 0x20 (space) to 0x5F and 0x61 to 0x7E
AsciiLow == " !\"#$%&'()*+,-./0123456789:;<=>?@ABCDEFGHIJKLMNOPQRSTUVWXYZ[\\]^_"
AsciiHigh == "abcdefghijklmnopqrstuvwxyz{|}~"

\* urlencoding::decode_binary followed by String::from_utf8: every %XX with
\* two hexadecimal digits becomes the byte XX, everything else ('+' and a
\* stray '%' included) is kept; the result is invalid when the bytes are not
\* UTF-8.  The alphabet of the model is printable ASCII: an escape of another
\* byte below 0x80 is kept as written, and a byte from 0x80 on makes the
\* result invalid (exact for a lone byte such as %FF, the only kind the
\* request lines of the model carry).
RECURSIVE DecodeBinary(_)
DecodeBinary(s) ==
    IF s = "" THEN [valid |-> TRUE, text |-> ""]
    ELSE IF /\ CharAt(s, 1) = "%"
            /\ Len(s) >= 3
            /\ HexValue(CharAt(s, 2)) >= 0
            /\ HexValue(CharAt(s, 3)) >= 0
    THEN LET byte == 16 * HexValue(CharAt(s, 2)) + HexValue(CharAt(s, 3))
             rest == DecodeBinary(SubSeq(s, 4, Len(s)))
             char == IF byte >= 32 /\ byte <= 95 THEN CharAt(AsciiLow, byte - 31)
                     ELSE IF byte >= 97 /\ byte <= 126 THEN CharAt(AsciiHigh, byte - 96)
                     ELSE SubSeq(s, 1, 3)
         IN  IF byte >= 128
             THEN [valid |-> FALSE, text |-> ""]
             ELSE [valid |-> rest.valid, text |-> char \o rest.text]
    ELSE LET rest == DecodeBinary(Tail(s))
         IN  [valid |-> rest.valid, text |-> CharAt(s, 1) \o rest.text]

\* A decode that returns its argument as it is.
UrlDecodeRaw(s) == Ok(s)

\* urlencoding::decode
UrlDecode(s) ==
    LET d == DecodeBinary(s)
    IN  IF d.valid THEN Ok(d.text) ELSE Err("invalid utf-8 sequence")

\* The error of a callback that carries `error`:
\* anyhow!("Authorization failed: {} - {}", value, desc)
AuthorizationFailed(value, desc) ==
    Err("Authorization failed: " \o value \o " - " \o desc)

\* extract_code_from_request, the find_map over the pairs of the query: the
\* decoded value of the first pair error_description=v ("" when its bytes
\* are not UTF-8), "" when there is none
RECURSIVE ErrorDescription(_)
ErrorDescription(pairs) ==
    IF pairs = <<>> THEN ""
    ELSE LET kv == SplitN2(Head(pairs), "=")
         IN  IF kv[1] = "error_description" /\ Len(kv) = 2
             THEN LET d == UrlDecode(kv[2])
                  IN  IF d.ok THEN Unwrap(d.value) ELSE ""
             ELSE ErrorDescription(Tail(pairs))

\* extract_code_from_request, the loop over the pairs of the query: the
\* first pair code=v or error=v decides
RECURSIVE ScanPairs(_, _)
ScanPairs(pairs, query) ==
    IF pairs = <<>> THEN Err("No authorization code in callback")
    ELSE LET kv == SplitN2(Head(pairs), "=")
         IN  IF Len(kv) = 2 /\ kv[1] = "code" THEN UrlDecode(kv[2])
             ELSE IF Len(kv) = 2 /\ kv[1] = "error"
             THEN AuthorizationFailed(kv[2], ErrorDescription(Split(query, "&")))
             ELSE ScanPairs(Tail(pairs), query)

\* extract_code_from_request with unwrap_or_default() for the checks at its
\* start: a request line without a path or without a query yields the empty
\* code.
ExtractCodeOrEmpty(request_line) ==
    LET parts == SplitWhitespace(request_line)
    IN  IF Len(parts) < 2 THEN Ok("")
        ELSE LET path == parts[2]
                 query_start == Find(path, "?")
             IN  IF query_start = 0 THEN Ok("")
                 ELSE LET query == SubSeq(path, query_start + 1, Len(path))
                      IN  ScanPairs(Split(query, "&"), query)

\* extract_code_from_request(request_line)
ExtractCodeFromRequest(request_line) ==
    LET parts == SplitWhitespace(request_line)
    IN  IF Len(parts) < 2 THEN Err("Invalid HTTP request")
        ELSE LET path == parts[2]
                 query_start == Find(path, "?")
             IN  IF query_start = 0 THEN Err("No query string in callback")
                 ELSE LET query == SubSeq(path, query_start + 1, Len(path))
                      IN  ScanPairs(Split(query, "&"), query)

\* str::trim_end_matches(c)
RECURSIVE TrimEndMatches(_, _)
TrimEndMatches(s, c) ==
    IF s # "" /\ CharAt(s, Len(s)) = c
    THEN TrimEndMatches(SubSeq(s, 1, Len(s) - 1), c)
    ELSE s

\* REDIRECT_URI, SCOPES
RedirectUri == "http://localhost:7171/auth/redirect"
Scopes == "openid profile read_user write_repository api"

\* generate_code_verifier: 32 random bytes, base64url without padding.  Two
\* of the values it can return.
Verifiers ==
    {"AQEBAQEBAQEBAQEBAQEBAQEBAQEBAQEBAQEBAQEBAQE",
     "AAECAwQFBgcICQoLDA0ODxAREhMUFRYXGBkaGxwdHh8"}

\* AuthFlow::code_challenge: base64url(SHA-256(code_verifier)), tabulated for
\* the verifiers above
CodeChallenge(code_verifier) ==
    CASE code_verifier = "AQEBAQEBAQEBAQEBAQEBAQEBAQEBAQEBAQEBAQEBAQE"
           -> "VtX6czP210fbQsI5QH5dpMMvTHnzXQkrE0_TWkAtnFw"
      [] code_verifier = "AAECAwQFBgcICQoLDA0ODxAREhMUFRYXGBkaGxwdHh8"
           -> "6oZqdX5MOLq_qBJ8vppAnT4fk6AP8UiP9zX8-Rev_9A"

\* AuthFlow::new, with the verifier generate_code_verifier returned
AuthFlow(host, client_id, code_verifier) ==
    [host |-> TrimEndMatches(host, "/"), client_id |-> client_id,
     code_verifier |-> code_verifier]

\* authorization_url with code_challenge_method=plain: the challenge is the
\* verifier itself.
AuthorizationUrlPlain(flow) ==
    [base |-> flow.host \o "/oauth/authorize",
     query |-> [client_id |-> flow.client_id,
                redirect_uri |-> RedirectUri,
                response_type |-> "code",
                scope |-> Scopes,
                code_challenge |-> flow.code_verifier,
                code_challenge_method |-> "plain"]]

\* AuthFlow::authorization_url: the URL before urlencoding::encode writes
\* each parameter into the query string
AuthorizationUrl(flow) ==
    [base |-> flow.host \o "/oauth/authorize",
     query |-> [client_id |-> flow.client_id,
                redirect_uri |-> RedirectUri,
                response_type |-> "code",
                scope |-> Scopes,
                code_challenge |-> CodeChallenge(flow.code_verifier),
                code_challenge_method |-> "S256"]]

\* The URL main prints and opens in the browser
BrowserRequest(flow) == [to |-> "browser", url |-> AuthorizationUrl(flow)]

\* The page wait_for_callback writes to the accepted connection
CallbackPage == [to |-> "callback", page |-> "Authorization successful!"]

\* AuthFlow::exchange_code: the POST to the token endpoint
ExchangeRequest(flow, code) ==
    [to |-> "token", url |-> flow.host \o "/oauth/token",
     form |-> [client_id |-> flow.client_id, code |-> code,
               grant_type |-> "authorization_code", redirect_uri |-> RedirectUri,
               code_verifier |-> flow.code_verifier]]

\* refresh_token: the POST to the token endpoint
RefreshRequest(config) ==
    [to |-> "token", url |-> Host(config) \o "/oauth/token",
     form |-> [client_id |-> Unwrap(config.oauth2).client_id,
               refresh_token |-> Unwrap(config.oauth2).refresh_token,
               grant_type |-> "refresh_token"]]

\* A request of the Client to the resource API: base_url and the
\* Authorization header set in Client::new
ApiCall(host, token) ==
    [to |-> "api", url |-> TrimEndMatches(host, "/") \o "/api/v4", bearer |-> token]

\* What the browser's redirect to the local listener carries: the request
\* line of a callback with a code, of one with the provider's error (with
\* and without a description), and of a request that is no callback.
CodeLine == "GET /auth/redirect?code=abc123 HTTP/1.1\r\n"
ErrorLine ==
    "GET /auth/redirect?error=access_denied&error_description=User%20cancelled HTTP/1.1\r\n"
ErrorLineNoDescription == "GET /auth/redirect?error=access_denied HTTP/1.1\r\n"
EmptyLine == "\r\n"
NoQueryLine == "GET /auth/redirect HTTP/1.1\r\n"
Callbacks == {CodeLine, ErrorLine, ErrorLineNoDescription, EmptyLine, NoQueryLine}

\* extract_code_from_request for each of these request lines
CallbackResults == [request_line \in Callbacks |-> ExtractCodeFromRequest(request_line)]

(* ------------------------------ state --------------------------------- *)

VARIABLES
    now,           \* Utc::now(), in seconds
    disk,          \* the config file: None (no file) or Some(JSON object)
    listener,      \* the process with a TcpListener bound to 127.0.0.1:7171, 0 if none
    pc,            \* where each invocation is
    args,          \* Cli::parse(): the command and its options
    mem,           \* `config` of main(): the Config in memory
    resp,          \* the last response this invocation got from the token endpoint
    bearer,        \* the token get_client handed to Client::new
    refreshCalls,  \* requests this invocation sent to the token endpoint (refresh)
    exchangeCalls, \* requests this invocation sent to the token endpoint (exchange)
    apiCalls,      \* requests this invocation sent to the resource API
    result,        \* how the command ended
    refreshedAt,   \* when this invocation's refresh response was parsed (history)
    callback,      \* the request line this login's listener read and what
                   \* wait_for_callback returned for it: None, or Some([line, code])
    accepted,      \* connections this login's listener accepted
    flow,          \* the AuthFlow of this login: None, or Some(AuthFlow)
    sent,          \* what this invocation sent out, in order: URLs opened, pages and requests
    failedRefresh, \* history: "failed" since a refresh of this terminal failed, "renewed"
                   \* once a later refresh was saved, "no" once a login completed
    pipeline,      \* the pipeline the resource API reports: None (no "status" key)
                   \* or Some(status)
    last_error,    \* `last_error` of `mr automerge`: None, or Some(error text)
    input,         \* the argument of a function applied on its own: None, or Some(argument)
    output         \* what the function returned for it: None, or Some(value)

vars == <<now, disk, listener, pc, args, mem, resp, bearer, refreshCalls,
          exchangeCalls, apiCalls, result, refreshedAt, callback, accepted, flow, sent,
          failedRefresh, pipeline, last_error, input, output>>

\* The argument and the value of a function applied outside an invocation
pureVars == <<input, output>>

\* What a login and the requests of an invocation add to the state
wireVars == <<callback, accepted, flow, sent>>

NoArgs == [cmd |-> "none", host |-> None, token |-> None, project |-> None, group |-> FALSE]

\* enum Commands, with the options the handlers read
ConfigArgs ==
    {[cmd |-> "config", host |-> h, token |-> t, project |-> p, group |-> FALSE] :
        h \in {None, Some(CliHost)}, t \in {None, Some(CliToken)},
        p \in {None, Some(CliProject)}}
LoginArgs ==
    {[cmd |-> "login", host |-> h, token |-> None, project |-> None, group |-> FALSE] :
        h \in {None, Some(CliHost)}}
ApiArgs ==
    {[cmd |-> "api", host |-> None, token |-> None, project |-> p, group |-> g] :
        p \in {None, Some(CliProject)}, g \in BOOLEAN}
    \ {[cmd |-> "api", host |-> None, token |-> None, project |-> Some(CliProject), group |-> TRUE]}

\* `gitlab ci wait --id 1`, with and without --project
WaitArgs ==
    {[cmd |-> "wait", host |-> None, token |-> None, project |-> p, group |-> FALSE] :
        p \in {None, Some(CliProject)}}

\* The statuses of a pipeline `ci wait` goes on polling for, and those it
\* names when it stops ("unknown" stands for a missing status and
\* "manual" for one outside the list)
InProgress ==
    {"running", "pending", "created", "waiting_for_resource", "preparing", "scheduled"}
Finished == {"success", "failed", "canceled", "skipped"}
PipelineStatuses == InProgress \cup Finished \cup {"unknown", "manual"}

\* What GET /projects/:id/pipelines/:pid can report: a pipeline without a
\* "status" string, or one with any of the statuses
Pipelines == {None} \cup {Some(status) : status \in PipelineStatuses \ {"unknown"}}

\* pipeline["status"].as_str().unwrap_or("unknown")
StatusOf(pl) == IF pl = None THEN "unknown" ELSE Unwrap(pl)

Init ==
    /\ now = 0
    /\ disk = None
    /\ listener = 0
    /\ pc = [p \in Procs |-> "exited"]
    /\ args = [p \in Procs |-> NoArgs]
    /\ mem = [p \in Procs |-> DefaultConfig]
    /\ resp = [p \in Procs |-> None]
    /\ bearer = [p \in Procs |-> None]
    /\ refreshCalls = [p \in Procs |-> 0]
    /\ exchangeCalls = [p \in Procs |-> 0]
    /\ apiCalls = [p \in Procs |-> 0]
    /\ result = [p \in Procs |-> ""]
    /\ refreshedAt = [p \in Procs |-> 0]
    /\ callback = [p \in Procs |-> None]
    /\ accepted = [p \in Procs |-> 0]
    /\ flow = [p \in Procs |-> None]
    /\ sent = [p \in Procs |-> <<>>]
    /\ failedRefresh = [p \in Procs |-> "no"]
    /\ pipeline = Some("created")
    /\ last_error = [p \in Procs |-> None]
    /\ input = None
    /\ output = None

\* No invocation runs.
Idle ==
    /\ listener = 0
    /\ pc = [p \in Procs |-> "exited"]
    /\ args = [p \in Procs |-> NoArgs]
    /\ mem = [p \in Procs |-> DefaultConfig]
    /\ resp = [p \in Procs |-> None]
    /\ bearer = [p \in Procs |-> None]
    /\ refreshCalls = [p \in Procs |-> 0]
    /\ exchangeCalls = [p \in Procs |-> 0]
    /\ apiCalls = [p \in Procs |-> 0]
    /\ result = [p \in Procs |-> ""]
    /\ refreshedAt = [p \in Procs |-> 0]
    /\ callback = [p \in Procs |-> None]
    /\ accepted = [p \in Procs |-> 0]
    /\ flow = [p \in Procs |-> None]
    /\ sent = [p \in Procs |-> <<>>]
    /\ failedRefresh = [p \in Procs |-> "no"]
    /\ last_error = [p \in Procs |-> None]

(* ----------------------------- helpers -------------------------------- *)

\* The command returns from main(): Ok(()) or the error `r`.  The process
\* still holds its memory; Exit drops it.
Return(p, r) ==
    /\ pc' = [pc EXCEPT ![p] = "exiting"]
    /\ result' = [result EXCEPT ![p] = r]

Running(p) == pc[p] \notin {"exited", "exiting"}

(* --------------------------- src/main.rs ------------------------------ *)

\* main: Cli::parse() and Config::load(), then the dispatch on cli.command.
\* The command line is one of `commands`, the environment one of `envs`.
Begin(p, commands, envs) ==
    /\ pc[p] = "exited"
    /\ \E a \in commands, env \in envs :
        /\ args' = [args EXCEPT ![p] = a]
        /\ mem' = [mem EXCEPT ![p] = Load(disk, env)]
        /\ pc' = [pc EXCEPT ![p] =
                    CASE a.cmd = "config" -> "config"
                      [] a.cmd = "login" -> "login"
                      [] OTHER -> "gate"]
    /\ result' = [result EXCEPT ![p] = ""]
    /\ UNCHANGED <<now, disk, listener, resp, bearer, refreshCalls, exchangeCalls,
                   apiCalls, refreshedAt, failedRefresh>>
    /\ UNCHANGED wireVars
    /\ UNCHANGED pureVars
    /\ UNCHANGED <<pipeline, last_error>>

\* Any command, in any environment
Start(p) == Begin(p, ConfigArgs \cup LoginArgs \cup ApiArgs, Envs)

\* `gitlab auth login` with no GITLAB_* variable set
StartLogin(p) == Begin(p, {a \in LoginArgs : a.host = None}, {NoEnv})

\* main, Commands::Config { host, token, project }
ConfigCmd(p) ==
    /\ pc[p] = "config"
    /\ LET a == args[p]
           shown == ~IsSome(a.host) /\ ~IsSome(a.token) /\ ~IsSome(a.project)
           config == Config(IF IsSome(a.host) THEN a.host ELSE mem[p].host,
                            IF IsSome(a.token) THEN a.token ELSE mem[p].token,
                            IF IsSome(a.project) THEN a.project ELSE mem[p].project,
                            mem[p].oauth2)
       IN  IF shown
           THEN /\ Return(p, "Current configuration")
                /\ UNCHANGED <<mem, disk>>
           ELSE /\ mem' = [mem EXCEPT ![p] = config]
                /\ \E saved \in BOOLEAN :
                     IF saved
                     THEN disk' = Save(config) /\ Return(p, "Configuration saved.")
                     ELSE disk' = disk /\ Return(p, "save failed")
    /\ UNCHANGED <<now, listener, args, resp, bearer, refreshCalls, exchangeCalls,
                   apiCalls, refreshedAt, failedRefresh>>
    /\ UNCHANGED wireVars
    /\ UNCHANGED pureVars
    /\ UNCHANGED <<pipeline, last_error>>

\* The gate without the is_expired() test: every command with an OAuth2
\* record refreshes.
GateAlwaysRefresh(p) ==
    /\ pc[p] = "gate"
    /\ IF IsSome(mem[p].oauth2)
       THEN /\ pc' = [pc EXCEPT ![p] = "refreshing"]
            /\ refreshCalls' = [refreshCalls EXCEPT ![p] = @ + 1]
            /\ sent' = [sent EXCEPT ![p] = Append(@, RefreshRequest(mem[p]))]
       ELSE /\ pc' = [pc EXCEPT ![p] = "resolve"]
            /\ UNCHANGED <<refreshCalls, sent>>
    /\ UNCHANGED <<callback, accepted, flow>>
    /\ UNCHANGED <<now, disk, listener, args, mem, resp, bearer, exchangeCalls,
                   apiCalls, result, refreshedAt, failedRefresh>>
    /\ UNCHANGED pureVars
    /\ UNCHANGED <<pipeline, last_error>>

\* get_client / get_group_client: the check whether the OAuth2 token needs a
\* refresh, and in refresh_token the request to the token endpoint
Gate(p) ==
    /\ pc[p] = "gate"
    /\ IF IsSome(mem[p].oauth2) /\ IsExpired(Unwrap(mem[p].oauth2), now)
       THEN /\ pc' = [pc EXCEPT ![p] = "refreshing"]
            /\ refreshCalls' = [refreshCalls EXCEPT ![p] = @ + 1]
            /\ sent' = [sent EXCEPT ![p] = Append(@, RefreshRequest(mem[p]))]
       ELSE /\ pc' = [pc EXCEPT ![p] = "resolve"]
            /\ UNCHANGED <<refreshCalls, sent>>
    /\ UNCHANGED <<callback, accepted, flow>>
    /\ UNCHANGED <<now, disk, listener, args, mem, resp, bearer, exchangeCalls,
                   apiCalls, result, refreshedAt, failedRefresh>>
    /\ UNCHANGED pureVars
    /\ UNCHANGED <<pipeline, last_error>>

\* refresh_token that logs the user out when the refresh fails: it drops the
\* OAuth2 record and saves.
RefreshResponseLogsOut(p) ==
    /\ pc[p] = "refreshing"
    /\ \E response \in TokenResponses, saved \in BOOLEAN :
       LET oauth2 == Unwrap(mem[p].oauth2)
           parsed == RefreshResult(oauth2.client_id, response, now)
       IN  /\ resp' = [resp EXCEPT ![p] = Some(response)]
           /\ IF parsed.ok
              THEN /\ mem' = [mem EXCEPT ![p].oauth2 = parsed.value]
                   /\ refreshedAt' = [refreshedAt EXCEPT ![p] = now]
                   /\ IF saved
                      THEN /\ disk' = Save(mem'[p])
                           /\ pc' = [pc EXCEPT ![p] = "resolve"]
                           /\ failedRefresh' = [failedRefresh EXCEPT ![p] =
                                                  IF @ = "failed" THEN "renewed" ELSE @]
                           /\ UNCHANGED result
                      ELSE /\ disk' = disk
                           /\ Return(p, "save failed")
                           /\ UNCHANGED failedRefresh
              ELSE /\ Return(p, parsed.error)
                   /\ failedRefresh' = [failedRefresh EXCEPT ![p] = "failed"]
                   /\ mem' = [mem EXCEPT ![p].oauth2 = None]
                   /\ disk' = Save(mem'[p])
                   /\ UNCHANGED refreshedAt
    /\ UNCHANGED <<now, listener, args, bearer, refreshCalls, exchangeCalls, apiCalls>>
    /\ UNCHANGED wireVars
    /\ UNCHANGED pureVars
    /\ UNCHANGED <<pipeline, last_error>>

\* refresh_token whose error the gate swallows (no `?`): the command goes
\* on with whatever get_access_token returns.
RefreshResponseSwallow(p) ==
    /\ pc[p] = "refreshing"
    /\ \E response \in TokenResponses, saved \in BOOLEAN :
       LET oauth2 == Unwrap(mem[p].oauth2)
           parsed == RefreshResult(oauth2.client_id, response, now)
       IN  /\ resp' = [resp EXCEPT ![p] = Some(response)]
           /\ IF parsed.ok
              THEN /\ mem' = [mem EXCEPT ![p].oauth2 = parsed.value]
                   /\ refreshedAt' = [refreshedAt EXCEPT ![p] = now]
                   /\ IF saved
                      THEN /\ disk' = Save(mem'[p])
                           /\ pc' = [pc EXCEPT ![p] = "resolve"]
                           /\ failedRefresh' = [failedRefresh EXCEPT ![p] =
                                                  IF @ = "failed" THEN "renewed" ELSE @]
                           /\ UNCHANGED result
                      ELSE /\ disk' = disk
                           /\ Return(p, "save failed")
                           /\ UNCHANGED failedRefresh
              ELSE /\ pc' = [pc EXCEPT ![p] = "resolve"]
                   /\ failedRefresh' = [failedRefresh EXCEPT ![p] = "failed"]
                   /\ UNCHANGED <<mem, disk, refreshedAt, result>>
    /\ UNCHANGED <<now, listener, args, bearer, refreshCalls, exchangeCalls, apiCalls>>
    /\ UNCHANGED wireVars
    /\ UNCHANGED pureVars
    /\ UNCHANGED <<pipeline, last_error>>

\* A gate that falls back to the static token: when the refresh fails and a
\* static token is configured, the command goes on with it.
RefreshResponseFallsBack(p) ==
    /\ pc[p] = "refreshing"
    /\ \E response \in TokenResponses, saved \in BOOLEAN :
       LET oauth2 == Unwrap(mem[p].oauth2)
           parsed == RefreshResult(oauth2.client_id, response, now)
       IN  /\ resp' = [resp EXCEPT ![p] = Some(response)]
           /\ IF parsed.ok
              THEN /\ mem' = [mem EXCEPT ![p].oauth2 = parsed.value]
                   /\ refreshedAt' = [refreshedAt EXCEPT ![p] = now]
                   /\ IF saved
                      THEN /\ disk' = Save(mem'[p])
                           /\ pc' = [pc EXCEPT ![p] = "resolve"]
                           /\ failedRefresh' = [failedRefresh EXCEPT ![p] =
                                                  IF @ = "failed" THEN "renewed" ELSE @]
                           /\ UNCHANGED result
                      ELSE /\ disk' = disk
                           /\ Return(p, "save failed")
                           /\ UNCHANGED failedRefresh
              ELSE /\ IF IsSome(mem[p].token)
                      THEN pc' = [pc EXCEPT ![p] = "resolve"] /\ UNCHANGED result
                      ELSE Return(p, parsed.error)
                   /\ failedRefresh' = [failedRefresh EXCEPT ![p] = "failed"]
                   /\ UNCHANGED <<mem, disk, refreshedAt>>
    /\ UNCHANGED <<now, listener, args, bearer, refreshCalls, exchangeCalls, apiCalls>>
    /\ UNCHANGED wireVars
    /\ UNCHANGED pureVars
    /\ UNCHANGED <<pipeline, last_error>>

\* refresh_token from the token endpoint's response (any of TokenResponses)
\* to its return: the parse, `config.oauth2 = Some(new_oauth2)` and
\* `config.save()?` (fs::write succeeds or fails)
RefreshResponse(p) ==
    /\ pc[p] = "refreshing"
    /\ \E response \in TokenResponses, saved \in BOOLEAN :
       LET oauth2 == Unwrap(mem[p].oauth2)
           parsed == RefreshResult(oauth2.client_id, response, now)
       IN  /\ resp' = [resp EXCEPT ![p] = Some(response)]
           /\ IF parsed.ok
              THEN /\ mem' = [mem EXCEPT ![p].oauth2 = parsed.value]
                   /\ refreshedAt' = [refreshedAt EXCEPT ![p] = now]
                   /\ IF saved
                      THEN /\ disk' = Save(mem'[p])
                           /\ pc' = [pc EXCEPT ![p] = "resolve"]
                           /\ failedRefresh' = [failedRefresh EXCEPT ![p] =
                                                  IF @ = "failed" THEN "renewed" ELSE @]
                           /\ UNCHANGED result
                      ELSE /\ disk' = disk
                           /\ Return(p, "save failed")
                           /\ UNCHANGED failedRefresh
              ELSE /\ Return(p, parsed.error)
                   /\ failedRefresh' = [failedRefresh EXCEPT ![p] = "failed"]
                   /\ UNCHANGED <<mem, disk, refreshedAt>>
    /\ UNCHANGED <<now, listener, args, bearer, refreshCalls, exchangeCalls, apiCalls>>
    /\ UNCHANGED wireVars
    /\ UNCHANGED pureVars
    /\ UNCHANGED <<pipeline, last_error>>

\* get_client with the project looked up before the token.
ResolveProjectFirst(p) ==
    /\ pc[p] = "resolve"
    /\ LET token == GetAccessToken(mem[p], now)
           project == IF args[p].group THEN Some("_")
                      ELSE IF IsSome(args[p].project) THEN args[p].project
                      ELSE mem[p].project
       IN  IF ~IsSome(project)
           THEN Return(p, "No project specified") /\ UNCHANGED bearer
           ELSE IF ~IsSome(token)
           THEN Return(p, "No token configured") /\ UNCHANGED bearer
           ELSE /\ bearer' = [bearer EXCEPT ![p] = token]
                /\ pc' = [pc EXCEPT ![p] = "request"]
                /\ UNCHANGED result
    /\ UNCHANGED <<now, disk, listener, args, mem, resp, refreshCalls, exchangeCalls,
                   apiCalls, refreshedAt, failedRefresh>>
    /\ UNCHANGED wireVars
    /\ UNCHANGED pureVars
    /\ UNCHANGED <<pipeline, last_error>>

\* get_client / get_group_client after the gate: the token, the project and
\* Client::new
Resolve(p) ==
    /\ pc[p] = "resolve"
    /\ LET token == GetAccessToken(mem[p], now)
           project == IF args[p].group THEN Some("_")
                      ELSE IF IsSome(args[p].project) THEN args[p].project
                      ELSE mem[p].project
       IN  IF ~IsSome(token)
           THEN Return(p, "No token configured") /\ UNCHANGED bearer
           ELSE IF ~IsSome(project)
           THEN Return(p, "No project specified") /\ UNCHANGED bearer
           ELSE /\ bearer' = [bearer EXCEPT ![p] = token]
                /\ pc' = [pc EXCEPT ![p] = "request"]
                /\ UNCHANGED result
    /\ UNCHANGED <<now, disk, listener, args, mem, resp, refreshCalls, exchangeCalls,
                   apiCalls, refreshedAt, failedRefresh>>
    /\ UNCHANGED wireVars
    /\ UNCHANGED pureVars
    /\ UNCHANGED <<pipeline, last_error>>

\* `ci wait` whose every poll runs the expiry check again: with an expired
\* record it goes back to the gate instead of polling.
PollChecksExpiry(p) ==
    /\ pc[p] = "request"
    /\ args[p].cmd = "wait"
    /\ IF IsSome(mem[p].oauth2) /\ IsExpired(Unwrap(mem[p].oauth2), now) /\ apiCalls[p] > 0
       THEN /\ pc' = [pc EXCEPT ![p] = "gate"]
            /\ UNCHANGED <<apiCalls, sent, result>>
       ELSE /\ IF apiCalls[p] < MaxPolls
               THEN /\ apiCalls' = [apiCalls EXCEPT ![p] = @ + 1]
                    /\ sent' = [sent EXCEPT ![p] =
                                  Append(@, ApiCall(Host(mem[p]), Unwrap(bearer[p])))]
               ELSE UNCHANGED <<apiCalls, sent>>
            /\ \E failed \in BOOLEAN :
                 LET status == StatusOf(pipeline)
                 IN  IF failed THEN Return(p, "HTTP error")
                     ELSE IF status = "success" THEN Return(p, "ok")
                     ELSE IF status \in {"failed", "canceled", "skipped"}
                     THEN Return(p, "Pipeline #1 " \o status)
                     ELSE IF status \in InProgress THEN UNCHANGED <<pc, result>>
                     ELSE Return(p, "Unknown pipeline status: " \o status)
    /\ UNCHANGED <<callback, accepted, flow>>
    /\ UNCHANGED <<now, disk, listener, args, mem, resp, bearer, refreshCalls,
                   exchangeCalls, refreshedAt, failedRefresh>>
    /\ UNCHANGED pureVars
    /\ UNCHANGED <<pipeline, last_error>>

\* `ci wait` whose match sleeps on every status it does not know, instead
\* of failing.
PollSleepsOnUnknown(p) ==
    /\ pc[p] = "request"
    /\ args[p].cmd = "wait"
    /\ IF apiCalls[p] < MaxPolls
       THEN /\ apiCalls' = [apiCalls EXCEPT ![p] = @ + 1]
            /\ sent' = [sent EXCEPT ![p] =
                          Append(@, ApiCall(Host(mem[p]), Unwrap(bearer[p])))]
       ELSE UNCHANGED <<apiCalls, sent>>
    /\ \E failed \in BOOLEAN :
         LET status == StatusOf(pipeline)
         IN  IF failed THEN Return(p, "HTTP error")
             ELSE IF status = "success" THEN Return(p, "ok")
             ELSE IF status \in {"failed", "canceled", "skipped"}
             THEN Return(p, "Pipeline #1 " \o status)
             ELSE UNCHANGED <<pc, result>>
    /\ UNCHANGED <<callback, accepted, flow>>
    /\ UNCHANGED <<now, disk, listener, args, mem, resp, bearer, refreshCalls,
                   exchangeCalls, refreshedAt, failedRefresh>>
    /\ UNCHANGED pureVars
    /\ UNCHANGED <<pipeline, last_error>>

\* `ci wait` with a poll limit: after MaxPolls polls it sends no more
\* requests and never returns.
PollLimited(p) ==
    /\ pc[p] = "request"
    /\ args[p].cmd = "wait"
    /\ apiCalls[p] < MaxPolls
    /\ apiCalls' = [apiCalls EXCEPT ![p] = @ + 1]
    /\ sent' = [sent EXCEPT ![p] = Append(@, ApiCall(Host(mem[p]), Unwrap(bearer[p])))]
    /\ \E failed \in BOOLEAN :
         LET status == StatusOf(pipeline)
         IN  IF failed THEN Return(p, "HTTP error")
             ELSE IF status = "success" THEN Return(p, "ok")
             ELSE IF status \in {"failed", "canceled", "skipped"}
             THEN Return(p, "Pipeline #1 " \o status)
             ELSE IF status \in InProgress THEN UNCHANGED <<pc, result>>
             ELSE Return(p, "Unknown pipeline status: " \o status)
    /\ UNCHANGED <<callback, accepted, flow>>
    /\ UNCHANGED <<now, disk, listener, args, mem, resp, bearer, refreshCalls,
                   exchangeCalls, refreshedAt, failedRefresh>>
    /\ UNCHANGED pureVars
    /\ UNCHANGED <<pipeline, last_error>>

\* main, CiCommands::Wait (commands/ci.rs handle_wait): one turn of the
\* loop, with the Client built before the loop.  The request fails, or it
\* returns a pipeline whose status ends the command or lets it sleep and
\* poll again.
Poll(p) ==
    /\ pc[p] = "request"
    /\ args[p].cmd = "wait"
    /\ IF apiCalls[p] < MaxPolls
       THEN /\ apiCalls' = [apiCalls EXCEPT ![p] = @ + 1]
            /\ sent' = [sent EXCEPT ![p] =
                          Append(@, ApiCall(Host(mem[p]), Unwrap(bearer[p])))]
       ELSE UNCHANGED <<apiCalls, sent>>
    /\ \E failed \in BOOLEAN :
         LET status == StatusOf(pipeline)
         IN  IF failed THEN Return(p, "HTTP error")
             ELSE IF status = "success" THEN Return(p, "ok")
             ELSE IF status \in {"failed", "canceled", "skipped"}
             THEN Return(p, "Pipeline #1 " \o status)
             ELSE IF status \in InProgress THEN UNCHANGED <<pc, result>>
             ELSE Return(p, "Unknown pipeline status: " \o status)
    /\ UNCHANGED <<callback, accepted, flow>>
    /\ UNCHANGED <<now, disk, listener, args, mem, resp, bearer, refreshCalls,
                   exchangeCalls, refreshedAt, failedRefresh>>
    /\ UNCHANGED pureVars
    /\ UNCHANGED <<pipeline, last_error>>

\* The command's request to the resource API through the Client
ApiRequest(p) ==
    /\ pc[p] = "request"
    /\ args[p].cmd = "api"
    /\ apiCalls' = [apiCalls EXCEPT ![p] = @ + 1]
    /\ sent' = [sent EXCEPT ![p] = Append(@, ApiCall(Host(mem[p]), Unwrap(bearer[p])))]
    /\ UNCHANGED <<callback, accepted, flow>>
    /\ \E r \in {"ok", "HTTP error"} : Return(p, r)
    /\ UNCHANGED <<now, disk, listener, args, mem, resp, bearer, refreshCalls,
                   exchangeCalls, refreshedAt, failedRefresh>>
    /\ UNCHANGED pureVars
    /\ UNCHANGED <<pipeline, last_error>>

\* A bind that succeeds although the port is taken (as with SO_REUSEPORT).
LoginBindReusePort(p) ==
    /\ pc[p] = "login"
    /\ \E code_verifier \in Verifiers :
        LET auth_host == IF IsSome(args[p].host) THEN Unwrap(args[p].host) ELSE Host(mem[p])
            new == AuthFlow(auth_host, DefaultClientId, code_verifier)
        IN  /\ flow' = [flow EXCEPT ![p] = Some(new)]
            /\ sent' = [sent EXCEPT ![p] = Append(@, BrowserRequest(new))]
    /\ listener' = p
    /\ pc' = [pc EXCEPT ![p] = "await_callback"]
    /\ UNCHANGED <<now, disk, args, mem, resp, bearer, refreshCalls, exchangeCalls,
                   apiCalls, result, refreshedAt, failedRefresh, callback, accepted>>
    /\ UNCHANGED pureVars
    /\ UNCHANGED <<pipeline, last_error>>

\* main, AuthCommands::Login up to TcpListener::bind in wait_for_callback:
\* the AuthFlow with a fresh verifier, the authorization URL printed and
\* opened in the browser, and the bind
LoginBind(p) ==
    /\ pc[p] = "login"
    /\ \E code_verifier \in Verifiers :
        LET auth_host == IF IsSome(args[p].host) THEN Unwrap(args[p].host) ELSE Host(mem[p])
            new == AuthFlow(auth_host, DefaultClientId, code_verifier)
        IN  /\ flow' = [flow EXCEPT ![p] = Some(new)]
            /\ sent' = [sent EXCEPT ![p] = Append(@, BrowserRequest(new))]
    /\ IF listener # 0
       THEN /\ Return(p, "Failed to bind to port 7171. Is another instance running?")
            /\ UNCHANGED listener
       ELSE /\ listener' = p
            /\ pc' = [pc EXCEPT ![p] = "await_callback"]
            /\ UNCHANGED result
    /\ UNCHANGED <<now, disk, args, mem, resp, bearer, refreshCalls, exchangeCalls,
                   apiCalls, refreshedAt, failedRefresh, callback, accepted>>
    /\ UNCHANGED pureVars
    /\ UNCHANGED <<pipeline, last_error>>

\* A login that clears the static token and saves as soon as the code is
\* there, before the exchange.
CallbackSavesEarly(p) ==
    /\ pc[p] = "await_callback"
    /\ listener' = 0
    /\ accepted' = [accepted EXCEPT ![p] = @ + 1]
    /\ \E request_line \in Callbacks :
        LET code == CallbackResults[request_line]
        IN  /\ callback' = [callback EXCEPT ![p] =
                                Some([line |-> request_line, code |-> code])]
            /\ IF code.ok
               THEN /\ pc' = [pc EXCEPT ![p] = "exchanging"]
                    /\ exchangeCalls' = [exchangeCalls EXCEPT ![p] = @ + 1]
                    /\ sent' = [sent EXCEPT ![p] =
                                  @ \o <<CallbackPage,
                                         ExchangeRequest(Unwrap(flow[p]), Unwrap(code.value))>>]
                    /\ mem' = [mem EXCEPT ![p].token = None]
                    /\ disk' = Save(mem'[p])
                    /\ UNCHANGED result
               ELSE /\ Return(p, code.error)
                    /\ UNCHANGED <<exchangeCalls, sent, mem, disk>>
    /\ UNCHANGED <<now, args, resp, bearer, refreshCalls, apiCalls,
                   refreshedAt, failedRefresh, flow>>
    /\ UNCHANGED pureVars
    /\ UNCHANGED <<pipeline, last_error>>

\* A login that answers a callback without a code by waiting for the next
\* one: the listener stays open and the attempt goes on.
CallbackRetries(p) ==
    /\ pc[p] = "await_callback"
    /\ accepted' = [accepted EXCEPT ![p] = @ + 1]
    /\ \E request_line \in Callbacks :
        LET code == CallbackResults[request_line]
        IN  /\ callback' = [callback EXCEPT ![p] =
                                Some([line |-> request_line, code |-> code])]
            /\ IF code.ok
               THEN /\ pc' = [pc EXCEPT ![p] = "exchanging"]
                    /\ listener' = 0
                    /\ exchangeCalls' = [exchangeCalls EXCEPT ![p] = @ + 1]
                    /\ sent' = [sent EXCEPT ![p] =
                                  @ \o <<CallbackPage,
                                         ExchangeRequest(Unwrap(flow[p]), Unwrap(code.value))>>]
                    /\ UNCHANGED result
               ELSE /\ accepted[p] < 2
                    /\ UNCHANGED <<pc, listener, result, exchangeCalls, sent>>
    /\ UNCHANGED <<now, disk, args, mem, resp, bearer, refreshCalls, apiCalls,
                   refreshedAt, failedRefresh, flow>>
    /\ UNCHANGED pureVars
    /\ UNCHANGED <<pipeline, last_error>>

\* wait_for_callback with a listener that outlives the call (a field of the
\* AuthFlow): the port stays bound during the exchange.
CallbackKeepsListener(p) ==
    /\ pc[p] = "await_callback"
    /\ accepted' = [accepted EXCEPT ![p] = @ + 1]
    /\ \E request_line \in Callbacks :
        LET code == CallbackResults[request_line]
        IN  /\ callback' = [callback EXCEPT ![p] =
                                Some([line |-> request_line, code |-> code])]
            /\ IF code.ok
               THEN /\ pc' = [pc EXCEPT ![p] = "exchanging"]
                    /\ exchangeCalls' = [exchangeCalls EXCEPT ![p] = @ + 1]
                    /\ sent' = [sent EXCEPT ![p] =
                                  @ \o <<CallbackPage,
                                         ExchangeRequest(Unwrap(flow[p]), Unwrap(code.value))>>]
                    /\ UNCHANGED result
               ELSE /\ Return(p, code.error)
                    /\ UNCHANGED <<exchangeCalls, sent>>
    /\ UNCHANGED <<now, disk, args, mem, resp, bearer, refreshCalls, apiCalls,
                   refreshedAt, failedRefresh, flow, listener>>
    /\ UNCHANGED pureVars
    /\ UNCHANGED <<pipeline, last_error>>

\* A login that takes wait_for_callback().unwrap_or_default(): after a
\* callback without a code it exchanges the empty code.
CallbackExchangesAlways(p) ==
    /\ pc[p] = "await_callback"
    /\ listener' = 0
    /\ accepted' = [accepted EXCEPT ![p] = @ + 1]
    /\ \E request_line \in Callbacks :
        LET code == CallbackResults[request_line]
        IN  /\ callback' = [callback EXCEPT ![p] =
                                Some([line |-> request_line, code |-> code])]
            /\ pc' = [pc EXCEPT ![p] = "exchanging"]
            /\ exchangeCalls' = [exchangeCalls EXCEPT ![p] = @ + 1]
            /\ sent' = [sent EXCEPT ![p] =
                          IF code.ok
                          THEN @ \o <<CallbackPage,
                                      ExchangeRequest(Unwrap(flow[p]), Unwrap(code.value))>>
                          ELSE Append(@, ExchangeRequest(Unwrap(flow[p]), ""))]
            /\ UNCHANGED result
    /\ UNCHANGED <<now, disk, args, mem, resp, bearer, refreshCalls, apiCalls,
                   refreshedAt, failedRefresh, flow>>
    /\ UNCHANGED pureVars
    /\ UNCHANGED <<pipeline, last_error>>

\* A wait_for_callback that writes the page as soon as the request line is
\* read, before extract_code_from_request.
CallbackPageFirst(p) ==
    /\ pc[p] = "await_callback"
    /\ listener' = 0
    /\ accepted' = [accepted EXCEPT ![p] = @ + 1]
    /\ \E request_line \in Callbacks :
        LET code == CallbackResults[request_line]
        IN  /\ callback' = [callback EXCEPT ![p] =
                                Some([line |-> request_line, code |-> code])]
            /\ IF code.ok
               THEN /\ pc' = [pc EXCEPT ![p] = "exchanging"]
                    /\ exchangeCalls' = [exchangeCalls EXCEPT ![p] = @ + 1]
                    /\ sent' = [sent EXCEPT ![p] =
                                  @ \o <<CallbackPage,
                                         ExchangeRequest(Unwrap(flow[p]), Unwrap(code.value))>>]
                    /\ UNCHANGED result
               ELSE /\ Return(p, code.error)
                    /\ sent' = [sent EXCEPT ![p] = Append(@, CallbackPage)]
                    /\ UNCHANGED exchangeCalls
    /\ UNCHANGED <<now, disk, args, mem, resp, bearer, refreshCalls, apiCalls,
                   refreshedAt, failedRefresh, flow>>
    /\ UNCHANGED pureVars
    /\ UNCHANGED <<pipeline, last_error>>

\* wait_for_callback from listener.accept() to its return (the listener is
\* dropped): the request line read from the one accepted connection, the
\* result of extract_code_from_request, on a code the page written to the
\* connection; and on a code the request of exchange_code
Callback(p) ==
    /\ pc[p] = "await_callback"
    /\ listener' = 0
    /\ accepted' = [accepted EXCEPT ![p] = @ + 1]
    /\ \E request_line \in Callbacks :
        LET code == CallbackResults[request_line]
        IN  /\ callback' = [callback EXCEPT ![p] =
                                Some([line |-> request_line, code |-> code])]
            /\ IF code.ok
               THEN /\ pc' = [pc EXCEPT ![p] = "exchanging"]
                    /\ exchangeCalls' = [exchangeCalls EXCEPT ![p] = @ + 1]
                    /\ sent' = [sent EXCEPT ![p] =
                                  @ \o <<CallbackPage,
                                         ExchangeRequest(Unwrap(flow[p]), Unwrap(code.value))>>]
                    /\ UNCHANGED result
               ELSE /\ Return(p, code.error)
                    /\ UNCHANGED <<exchangeCalls, sent>>
    /\ UNCHANGED <<now, disk, args, mem, resp, bearer, refreshCalls, apiCalls,
                   refreshedAt, failedRefresh, flow>>
    /\ UNCHANGED pureVars
    /\ UNCHANGED <<pipeline, last_error>>

\* A login that clears the static token before it calls exchange_code: a
\* failed exchange leaves the config in memory without it.
ExchangeResponseClearsFirst(p) ==
    /\ pc[p] = "exchanging"
    /\ \E response \in TokenResponses, saved \in BOOLEAN :
       LET parsed == ExchangeResult(Unwrap(flow[p]).client_id, response, now)
       IN  /\ resp' = [resp EXCEPT ![p] = Some(response)]
           /\ IF parsed.ok
              THEN /\ mem' = [mem EXCEPT ![p] =
                               Config(IF IsSome(args[p].host) THEN args[p].host ELSE @.host,
                                      None, @.project, parsed.value)]
                   /\ IF saved
                      THEN /\ disk' = Save(mem'[p])
                           /\ Return(p, "Authentication successful!")
                           /\ failedRefresh' = [q \in Procs |-> "no"]
                      ELSE /\ disk' = disk
                           /\ Return(p, "save failed")
                           /\ UNCHANGED failedRefresh
              ELSE /\ Return(p, parsed.error)
                   /\ mem' = [mem EXCEPT ![p].token = None]
                   /\ UNCHANGED <<disk, failedRefresh>>
    /\ UNCHANGED <<now, listener, args, bearer, refreshCalls, exchangeCalls,
                   apiCalls, refreshedAt>>
    /\ UNCHANGED wireVars
    /\ UNCHANGED pureVars
    /\ UNCHANGED <<pipeline, last_error>>

\* main, AuthCommands::Login from the token endpoint's response to the end:
\* the result of exchange_code, the three assignments to config and
\* `config.save()?` (fs::write succeeds or fails)
ExchangeResponse(p) ==
    /\ pc[p] = "exchanging"
    /\ \E response \in TokenResponses, saved \in BOOLEAN :
       LET parsed == ExchangeResult(Unwrap(flow[p]).client_id, response, now)
       IN  /\ resp' = [resp EXCEPT ![p] = Some(response)]
           /\ IF parsed.ok
              THEN /\ mem' = [mem EXCEPT ![p] =
                               Config(IF IsSome(args[p].host) THEN args[p].host ELSE @.host,
                                      None, @.project, parsed.value)]
                   /\ IF saved
                      THEN /\ disk' = Save(mem'[p])
                           /\ Return(p, "Authentication successful!")
                           /\ failedRefresh' = [q \in Procs |-> "no"]
                      ELSE /\ disk' = disk
                           /\ Return(p, "save failed")
                           /\ UNCHANGED failedRefresh
              ELSE /\ Return(p, parsed.error)
                   /\ UNCHANGED <<mem, disk, failedRefresh>>
    /\ UNCHANGED <<now, listener, args, bearer, refreshCalls, exchangeCalls,
                   apiCalls, refreshedAt>>
    /\ UNCHANGED wireVars
    /\ UNCHANGED pureVars
    /\ UNCHANGED <<pipeline, last_error>>

\* The process ends: its memory and its sockets are gone.
Gone(p) ==
    /\ pc' = [pc EXCEPT ![p] = "exited"]
    /\ args' = [args EXCEPT ![p] = NoArgs]
    /\ mem' = [mem EXCEPT ![p] = DefaultConfig]
    /\ resp' = [resp EXCEPT ![p] = None]
    /\ bearer' = [bearer EXCEPT ![p] = None]
    /\ refreshCalls' = [refreshCalls EXCEPT ![p] = 0]
    /\ exchangeCalls' = [exchangeCalls EXCEPT ![p] = 0]
    /\ apiCalls' = [apiCalls EXCEPT ![p] = 0]
    /\ refreshedAt' = [refreshedAt EXCEPT ![p] = 0]
    /\ callback' = [callback EXCEPT ![p] = None]
    /\ accepted' = [accepted EXCEPT ![p] = 0]
    /\ flow' = [flow EXCEPT ![p] = None]
    /\ sent' = [sent EXCEPT ![p] = <<>>]
    /\ last_error' = [last_error EXCEPT ![p] = None]
    /\ listener' = IF listener = p THEN 0 ELSE listener

\* main returned: the process exits.
Exit(p) ==
    /\ pc[p] = "exiting"
    /\ Gone(p)
    /\ result' = [result EXCEPT ![p] = ""]
    /\ UNCHANGED <<now, disk, failedRefresh>>
    /\ UNCHANGED pureVars
    /\ UNCHANGED pipeline

\* The user kills the process (there is no other way to cancel).
Kill(p) ==
    /\ Running(p)
    /\ Gone(p)
    /\ result' = [result EXCEPT ![p] = "killed"]
    /\ UNCHANGED <<now, disk, failedRefresh>>
    /\ UNCHANGED pureVars
    /\ UNCHANGED pipeline

\* A second passes.
Tick ==
    /\ now < MaxTime
    /\ now' = now + 1
    /\ UNCHANGED <<disk, listener, pc, args, mem, resp, bearer, refreshCalls,
                   exchangeCalls, apiCalls, result, refreshedAt, failedRefresh>>
    /\ UNCHANGED wireVars
    /\ UNCHANGED pureVars
    /\ UNCHANGED <<pipeline, last_error>>

\* The terminal whose invocations run one after the other.
Main == 1

\* One invocation at a time: every command, every environment.
Next ==
    \/ Tick
    \/ Start(Main)
    \/ ConfigCmd(Main)
    \/ Gate(Main)
    \/ RefreshResponse(Main)
    \/ Resolve(Main)
    \/ ApiRequest(Main)
    \/ LoginBind(Main)
    \/ Callback(Main)
    \/ ExchangeResponse(Main)
    \/ Exit(Main)
    \/ Kill(Main)

Spec == Init /\ [][Next]_vars

\* Login attempts started in both terminals, in any interleaving.
NextLogins ==
    \/ \E p \in Procs :
        \/ StartLogin(p)
        \/ LoginBind(p)
        \/ Callback(p)
        \/ ExchangeResponse(p)
        \/ Exit(p)
        \/ Kill(p)

SpecLogins == Init /\ [][NextLogins]_vars

\* `gitlab auth login --host H` for a host written with and without a
\* trailing slash
SlashHost == "https://gitlab.example/"
HostLoginArgs ==
    {[cmd |-> "login", host |-> Some(h), token |-> None, project |-> None, group |-> FALSE] :
        h \in {CliHost, SlashHost}}

\* A login with --host, or a command that uses the resource API
StartHosts(p) == Begin(p, HostLoginArgs \cup ApiArgs, {NoEnv})

\* Logins with --host and the commands run after them, in one terminal.
NextHosts ==
    \/ Tick
    \/ StartHosts(Main)
    \/ LoginBind(Main)
    \/ Callback(Main)
    \/ ExchangeResponse(Main)
    \/ Gate(Main)
    \/ RefreshResponse(Main)
    \/ Resolve(Main)
    \/ ApiRequest(Main)
    \/ Exit(Main)

SpecHosts == Init /\ [][NextHosts]_vars

\* `gitlab ci wait`, in any environment
StartWait(p) == Begin(p, WaitArgs, Envs)

\* The stores earlier logins, refreshes and `config` commands leave behind:
\* with or without a static token, and with no OAuth2 record or one that
\* expires at any time up to MaxTime + 1
Stores ==
    {Save(Config(None, t, Some(CliProject), o)) :
        t \in {None, Some(CliToken)},
        o \in {None} \cup
              {Some(OAuth2Config(DefaultClientId, AccessToken(g), RefreshTokenStr(g), e)) :
                  g \in Gens, e \in 0..(MaxTime + 1)}}

\* The pipeline `ci wait` polls in these invocations runs, or has succeeded.
WaitPipelines == {Some("running"), Some("success")}

InitWait ==
    /\ now = 0
    /\ disk \in Stores
    /\ Idle
    /\ pipeline \in WaitPipelines
    /\ input = None
    /\ output = None

\* `ci wait` invocations of one terminal, one after the other, on any store.
NextWait ==
    \/ Tick
    \/ StartWait(Main)
    \/ Gate(Main)
    \/ RefreshResponse(Main)
    \/ Resolve(Main)
    \/ Poll(Main)
    \/ Exit(Main)
    \/ Kill(Main)

SpecWait == InitWait /\ [][NextWait]_vars

(* ------------------------ the loop of `ci wait` ----------------------- *)

\* The pipeline changes on the server: any status may follow any other
\* (jobs start, finish, are canceled or retried).
PipelineMoves ==
    /\ \E pl \in Pipelines : pl # pipeline /\ pipeline' = pl
    /\ UNCHANGED <<now, disk, listener, pc, args, mem, resp, bearer, refreshCalls,
                   exchangeCalls, apiCalls, result, refreshedAt, failedRefresh>>
    /\ UNCHANGED wireVars
    /\ UNCHANGED pureVars
    /\ UNCHANGED last_error

\* The store `gitlab config --token .. --project ..` left, and a pipeline in
\* any status
InitPoll ==
    /\ now = 0
    /\ disk = Save(Config(None, Some(CliToken), Some(CliProject), None))
    /\ Idle
    /\ pipeline \in Pipelines
    /\ input = None
    /\ output = None

\* `ci wait` invocations while the pipeline changes.
NextPoll ==
    \/ PipelineMoves
    \/ StartWait(Main)
    \/ Gate(Main)
    \/ Resolve(Main)
    \/ Poll(Main)
    \/ Exit(Main)
    \/ Kill(Main)

SpecPoll == InitPoll /\ [][NextPoll]_vars

\* The same where the loop goes on: the sleep returns and the request gets
\* its answer (one thread of control, every call awaited in turn).  A turn
\* whose request fails is never required: requests may go on succeeding.
SpecPollFair == SpecPoll /\ WF_vars(Poll(Main) /\ result'[Main] # "HTTP error")

(* ----------------------------- mr automerge -------------------------- *)

\* `gitlab mr automerge 7`, with and without --project
AutomergeArgs ==
    {[cmd |-> "automerge", host |-> None, token |-> None, project |-> p, group |-> FALSE] :
        p \in {None, Some(CliProject)}}

\* let max_retries = 3
MaxRetries == 3

\* str::contains(pattern)
Contains(s, pattern) ==
    \E i \in 1..(Len(s) - Len(pattern) + 1) : SubSeq(s, i, i + Len(pattern) - 1) = pattern

\* The errors of Client::put: no answer, and "HTTP {status}: {body}" for
\* an answer that is no success
MergeErrors ==
    {"Failed to send request",
     "HTTP 401 Unauthorized: ",
     "HTTP 405 Method Not Allowed: ",
     "HTTP 404 Not Found: no merge request 405"}

\* `mr automerge` that sleeps and tries again after every error, up to
\* max_retries attempts.
AutomergeRetriesAll(p) ==
    /\ pc[p] = "request"
    /\ args[p].cmd = "automerge"
    /\ apiCalls[p] < MaxRetries
    /\ apiCalls' = [apiCalls EXCEPT ![p] = @ + 1]
    /\ sent' = [sent EXCEPT ![p] = Append(@, ApiCall(Host(mem[p]), Unwrap(bearer[p])))]
    /\ \E answer \in {Ok("title")} \cup {Err(e) : e \in MergeErrors} :
         LET attempt == apiCalls[p]
         IN  IF answer.ok
             THEN Return(p, "ok") /\ UNCHANGED last_error
             ELSE IF TRUE
             THEN /\ last_error' = [last_error EXCEPT ![p] = Some(answer.error)]
                  /\ IF attempt + 1 < MaxRetries
                     THEN UNCHANGED <<pc, result>>
                     ELSE Return(p, answer.error)
             ELSE Return(p, answer.error) /\ UNCHANGED last_error
    /\ UNCHANGED <<callback, accepted, flow>>
    /\ UNCHANGED <<now, disk, listener, args, mem, resp, bearer, refreshCalls,
                   exchangeCalls, refreshedAt, failedRefresh>>
    /\ UNCHANGED pureVars
    /\ UNCHANGED pipeline

\* main, MrCommands::Automerge (commands/mr.rs handle_automerge): one turn
\* of `for attempt in 0..max_retries`, with the Client built before the
\* loop: the request of set_automerge and the match on its result
Automerge(p) ==
    /\ pc[p] = "request"
    /\ args[p].cmd = "automerge"
    /\ apiCalls[p] < MaxRetries
    /\ apiCalls' = [apiCalls EXCEPT ![p] = @ + 1]
    /\ sent' = [sent EXCEPT ![p] = Append(@, ApiCall(Host(mem[p]), Unwrap(bearer[p])))]
    /\ \E answer \in {Ok("title")} \cup {Err(e) : e \in MergeErrors} :
         LET attempt == apiCalls[p]
         IN  IF answer.ok
             THEN Return(p, "ok") /\ UNCHANGED last_error
             ELSE IF Contains(answer.error, "405") /\ attempt < MaxRetries - 1
             THEN /\ last_error' = [last_error EXCEPT ![p] = Some(answer.error)]
                  /\ UNCHANGED <<pc, result>>
             ELSE Return(p, answer.error) /\ UNCHANGED last_error
    /\ UNCHANGED <<callback, accepted, flow>>
    /\ UNCHANGED <<now, disk, listener, args, mem, resp, bearer, refreshCalls,
                   exchangeCalls, refreshedAt, failedRefresh>>
    /\ UNCHANGED pureVars
    /\ UNCHANGED pipeline

StartAutomerge(p) == Begin(p, AutomergeArgs, Envs)

\* The store `gitlab config --token .. --project ..` left
InitAutomerge ==
    /\ now = 0
    /\ disk = Save(Config(None, Some(CliToken), Some(CliProject), None))
    /\ Idle
    /\ pipeline = Some("created")
    /\ input = None
    /\ output = None

\* `mr automerge` invocations of one terminal, one after the other.
NextAutomerge ==
    \/ StartAutomerge(Main)
    \/ Gate(Main)
    \/ Resolve(Main)
    \/ Automerge(Main)
    \/ Exit(Main)
    \/ Kill(Main)

\* Every step of an invocation is taken in the end: each call is awaited
\* and answered, and main returns.
SpecAutomerge ==
    /\ InitAutomerge
    /\ [][NextAutomerge]_vars
    /\ WF_vars(Gate(Main))
    /\ WF_vars(Resolve(Main))
    /\ WF_vars(Automerge(Main))

(* ----------------------- refresh_token on its own --------------------- *)

\* `gitlab ci wait` or an API command, in any environment
StartClient(p) == Begin(p, ApiArgs \cup WaitArgs, Envs)

\* A refresh_token without the check at its start: with no OAuth2 record it
\* posts empty credentials, which the token endpoint refuses.
RefreshTokenUnchecked(p) ==
    /\ pc[p] = "gate"
    /\ refreshCalls' = [refreshCalls EXCEPT ![p] = @ + 1]
    /\ IF mem[p].oauth2 = None
       THEN /\ sent' = [sent EXCEPT ![p] =
                          Append(@, [to |-> "token", url |-> Host(mem[p]) \o "/oauth/token",
                                     form |-> [client_id |-> "", refresh_token |-> "",
                                               grant_type |-> "refresh_token"]])]
            /\ Return(p, "Token refresh failed")
       ELSE /\ sent' = [sent EXCEPT ![p] = Append(@, RefreshRequest(mem[p]))]
            /\ pc' = [pc EXCEPT ![p] = "refreshing"]
            /\ UNCHANGED result
    /\ UNCHANGED <<callback, accepted, flow>>
    /\ UNCHANGED <<now, disk, listener, args, mem, resp, bearer, exchangeCalls,
                   apiCalls, refreshedAt, failedRefresh>>
    /\ UNCHANGED pureVars
    /\ UNCHANGED <<pipeline, last_error>>

\* refresh_token called on the loaded config whatever it holds (the pub
\* function on its own, without the check of get_client): the error for a
\* config without an OAuth2 record, else the request to the token endpoint
RefreshToken(p) ==
    /\ pc[p] = "gate"
    /\ IF mem[p].oauth2 = None
       THEN /\ Return(p, "No OAuth2 configuration found")
            /\ UNCHANGED <<refreshCalls, sent>>
       ELSE /\ pc' = [pc EXCEPT ![p] = "refreshing"]
            /\ refreshCalls' = [refreshCalls EXCEPT ![p] = @ + 1]
            /\ sent' = [sent EXCEPT ![p] = Append(@, RefreshRequest(mem[p]))]
            /\ UNCHANGED result
    /\ UNCHANGED <<callback, accepted, flow>>
    /\ UNCHANGED <<now, disk, listener, args, mem, resp, bearer, exchangeCalls,
                   apiCalls, refreshedAt, failedRefresh>>
    /\ UNCHANGED pureVars
    /\ UNCHANGED <<pipeline, last_error>>

\* Any store, and a pipeline that runs
InitRefresh ==
    /\ now = 0
    /\ disk \in Stores
    /\ Idle
    /\ pipeline = Some("running")
    /\ input = None
    /\ output = None

\* Commands that build a client, and refresh_token called directly, on any
\* store.
NextRefresh ==
    \/ Tick
    \/ StartClient(Main)
    \/ Gate(Main)
    \/ RefreshToken(Main)
    \/ RefreshResponse(Main)
    \/ Resolve(Main)
    \/ ApiRequest(Main)
    \/ Poll(Main)
    \/ Exit(Main)
    \/ Kill(Main)

SpecRefresh == InitRefresh /\ [][NextRefresh]_vars

(* ----------------- extract_code_from_request on its own --------------- *)

\* key=value pairs a callback's query can hold: the key, the value as
\* written, and the text the value stands for once its %XX escapes are
\* replaced by their bytes (None when those bytes are not UTF-8)
QueryPair(key, raw, text) == [key |-> key, raw |-> raw, text |-> text]
QueryPairs ==
    {QueryPair("code", "abc123", Some("abc123")),
     QueryPair("code", "a%2Fb%20c", Some("a/b c")),
     QueryPair("code", "%FF", None),
     QueryPair("code", "", Some("")),
     QueryPair("error", "access_denied", Some("access_denied")),
     QueryPair("error", "bad%20request", Some("bad request")),
     QueryPair("error_description", "User%20cancelled", Some("User cancelled")),
     QueryPair("error_description", "%FF", None),
     QueryPair("state", "xyz", Some("xyz"))}

\* The query string of a sequence of pairs
RECURSIVE QueryString(_)
QueryString(pairs) ==
    IF pairs = <<>> THEN ""
    ELSE LET first == Head(pairs).key \o "=" \o Head(pairs).raw
         IN  IF Len(pairs) = 1 THEN first
             ELSE first \o "&" \o QueryString(Tail(pairs))

\* The request line of the browser's redirect with that query
RequestLine(pairs) == "GET /auth/redirect?" \o QueryString(pairs) \o " HTTP/1.1\r\n"

\* The sequences of at most MaxPairs pairs
PairSeqs == UNION {[1..n -> QueryPairs] : n \in 0..MaxPairs}

\* The listener has read the request line of a redirect.
InitCallback ==
    /\ now = 0
    /\ disk = None
    /\ Idle
    /\ pipeline = Some("created")
    /\ input \in {Some([pairs |-> q, line |-> RequestLine(q)]) : q \in PairSeqs}
    /\ output = None

\* wait_for_callback: extract_code_from_request(&request_line)
ApplyExtract ==
    /\ input # None
    /\ output = None
    /\ output' = Some(ExtractCodeFromRequest(Unwrap(input).line))
    /\ UNCHANGED <<now, disk, listener, pc, args, mem, resp, bearer, refreshCalls,
                   exchangeCalls, apiCalls, result, refreshedAt, failedRefresh, input>>
    /\ UNCHANGED wireVars
    /\ UNCHANGED <<pipeline, last_error>>

NextCallback == ApplyExtract

SpecCallback == InitCallback /\ [][NextCallback]_vars

(* ------------------- parse_token_response on its own ------------------ *)

\* Token responses with the lifetimes of an hour and of two hours, with a
\* lifetime that is no integer, and with each key missing
HourBodies ==
    {TokenBody(a, r, e) :
        a \in {None, Some(AccessToken(1))},
        r \in {None, Some(RefreshTokenStr(1))},
        e \in {None, Some(0), Some(3600), Some(7200), Fraction(3600)}}

HourResponses ==
    {TokenResponse("transport_error", None), TokenResponse("http_error", None),
     TokenResponse("success", None)}
    \cup {TokenResponse("success", Some(b)) : b \in HourBodies}

\* The times the clock shows, in seconds: around the hour and the two hours
\* after 0 and after 1
ClockTimes == {0, 1, 3599, 3600, 3601, 3602, 7199, 7200, 7201, 7202}

\* A response of the token endpoint arrives, for exchange_code or for
\* refresh_token, at time 0 or 1.
InitToken ==
    /\ now \in {0, 1}
    /\ disk = None
    /\ Idle
    /\ pipeline = Some("created")
    /\ input \in {Some([grant |-> g, response |-> r]) :
                    g \in {"authorization_code", "refresh_token"}, r \in HourResponses}
    /\ output = None

\* exchange_code / refresh_token from the response to the record:
\* parse_token_response(client_id, &body) when the clock shows `now`
ApplyParse ==
    /\ input # None
    /\ output = None
    /\ LET call == Unwrap(input)
           record == IF call.grant = "authorization_code"
                     THEN ExchangeResult(DefaultClientId, call.response, now)
                     ELSE RefreshResult(DefaultClientId, call.response, now)
       IN  output' = Some([at |-> now, record |-> record])
    /\ UNCHANGED <<now, disk, listener, pc, args, mem, resp, bearer, refreshCalls,
                   exchangeCalls, apiCalls, result, refreshedAt, failedRefresh, input>>
    /\ UNCHANGED wireVars
    /\ UNCHANGED <<pipeline, last_error>>

\* Time passes, up to the next of the times above or further.
Elapse ==
    /\ \E t \in ClockTimes : t > now /\ now' = t
    /\ UNCHANGED <<disk, listener, pc, args, mem, resp, bearer, refreshCalls,
                   exchangeCalls, apiCalls, result, refreshedAt, failedRefresh>>
    /\ UNCHANGED wireVars
    /\ UNCHANGED pureVars
    /\ UNCHANGED <<pipeline, last_error>>

NextToken == ApplyParse \/ Elapse

SpecToken == InitToken /\ [][NextToken]_vars

(* ------------------------------ claims -------------------------------- *)

\* The Config the file holds.
DiskConfig == Load(disk, NoEnv)

\* A response of the token endpoint that makes exchange_code / refresh_token
\* fail: no response, a non-success status, a body that is not JSON or that
\* lacks access_token or refresh_token.
Failing(r) ==
    \/ r.status # "success"
    \/ r.body = None
    \/ /\ r.body # None
       /\ \/ Unwrap(r.body).access_token = None
          \/ Unwrap(r.body).refresh_token = None

\* The seconds of validity a successful response grants.
GrantedSeconds(r) ==
    IF Unwrap(r.body).expires_in = None THEN DefaultExpiresIn
    ELSE Unwrap(Unwrap(r.body).expires_in)

IsOAuthBearer(p) == bearer[p] # None /\ Unwrap(bearer[p]).kind = "access"

\* This API invocation's refresh_token call has returned Ok.
Refreshed(p) ==
    /\ args[p].cmd = "api"
    /\ refreshCalls[p] = 1
    /\ pc[p] \in {"resolve", "request"}

\* C1: get_access_token returns the OAuth2 access token whenever an OAuth2
\* record is present and the clock is before its expires_at, whatever the
\* static token; otherwise it returns the static token if one is set, and
\* otherwise nothing.
C1_GetAccessToken ==
    \A p \in Procs :
        LET cfg == mem[p]
            tok == GetAccessToken(cfg, now)
        IN  /\ (cfg.oauth2 # None /\ now < Unwrap(cfg.oauth2).expires_at)
                  => tok = Some(Unwrap(cfg.oauth2).access_token)
            /\ (cfg.oauth2 # None /\ now >= Unwrap(cfg.oauth2).expires_at)
                  => tok = cfg.token
            /\ cfg.oauth2 = None => tok = cfg.token
            /\ (pc[p] = "request" /\ ~IsOAuthBearer(p)) => bearer[p] = cfg.token

\* C1 witness: a command resolved the OAuth2 access token although a static
\* token is set as well.
C1_Witness ==
    /\ pc[Main] = "request"
    /\ mem[Main].token # None
    /\ mem[Main].oauth2 # None
    /\ bearer[Main] = Some(Unwrap(mem[Main].oauth2).access_token)

C2_GateStep(p) ==
    (/\ pc[p] = "gate"
     /\ mem[p].oauth2 # None
     /\ now >= Unwrap(mem[p].oauth2).expires_at
     /\ pc'[p] \notin {"gate", "exited"})
    => /\ pc'[p] = "refreshing"
       /\ refreshCalls'[p] = 1
       /\ disk' = disk

\* After the refresh: one request was sent, and the record in memory is the
\* response's, expiring expires_in (7200 if absent) seconds after the parse.
C2_AfterRefresh(p) ==
    /\ refreshCalls[p] <= 1
    /\ (pc[p] = "refreshing" => refreshCalls[p] = 1)
    /\ Refreshed(p)
          => LET r == Unwrap(resp[p])
                 oauth2 == Unwrap(mem[p].oauth2)
             IN  /\ ~Failing(r)
                 /\ oauth2.access_token = Unwrap(Unwrap(r.body).access_token)
                 /\ oauth2.refresh_token = Unwrap(Unwrap(r.body).refresh_token)
                 /\ oauth2.expires_at = refreshedAt[p] + GrantedSeconds(r)
                 /\ (now - refreshedAt[p] < GrantedSeconds(r))
                       => ~IsExpired(oauth2, now)
                 /\ (now - refreshedAt[p] >= GrantedSeconds(r))
                       => IsExpired(oauth2, now)

C3_GateStep(p) ==
    (/\ pc[p] = "gate"
     /\ mem[p].oauth2 # None
     /\ now < Unwrap(mem[p].oauth2).expires_at
     /\ pc'[p] \notin {"gate", "exited"})
    => /\ pc'[p] = "resolve"
       /\ refreshCalls'[p] = 0
       /\ resp'[p] = None
       /\ mem' = mem
       /\ disk' = disk

\* An API command that went through the gate without a refresh.
C3_NotRefreshed(p) ==
    (/\ args[p].cmd = "api"
     /\ refreshCalls[p] = 0)
    => /\ resp[p] = None
       /\ exchangeCalls[p] = 0
       /\ pc[p] # "refreshing"
       /\ mem[p].oauth2 = DiskConfig.oauth2

\* C3: for every API command run with a stored OAuth2 record that is not
\* expired at the check, the gate sends no request to the token endpoint and
\* leaves the record in memory and the config file as they are.
C3_NoNeedlessRefresh ==
    /\ [](\A p \in Procs : C3_NotRefreshed(p))
    /\ [][\A p \in Procs : C3_GateStep(p)]_vars

\* C3 witness: a command past the gate with an unexpired record and no
\* refresh request sent.
C3_Witness ==
    /\ args[Main].cmd = "api"
    /\ pc[Main] = "resolve"
    /\ mem[Main].oauth2 # None
    /\ now < Unwrap(mem[Main].oauth2).expires_at
    /\ refreshCalls[Main] = 0

\* The error messages of a failed refresh.
RefreshErrors ==
    {"Failed to refresh token", "Token refresh failed",
     "Failed to parse token response", "Missing access_token", "Missing refresh_token"}

\* An API command whose refresh request got a failing response.
C4_AfterFailure(p) ==
    (/\ args[p].cmd = "api"
     /\ resp[p] # None
     /\ Failing(Unwrap(resp[p])))
    => /\ pc[p] = "exiting"
       /\ result[p] \in RefreshErrors
       /\ bearer[p] = None
       /\ apiCalls[p] = 0
       /\ mem[p].oauth2 = DiskConfig.oauth2
       /\ IsExpired(Unwrap(mem[p].oauth2), now)

\* The step in which the refresh request gets a failing response.
C4_FailingStep(p) ==
    (/\ pc[p] = "refreshing"
     /\ resp'[p] # None
     /\ Failing(Unwrap(resp'[p])))
    => /\ pc'[p] = "exiting"
       /\ result'[p] \in RefreshErrors
       /\ bearer'[p] = None
       /\ mem' = mem
       /\ disk' = disk

\* C4: if the refresh call fails (transport error, non-success status, or a
\* success body lacking a required field) the command aborts with an error:
\* it dispatches no resource-API request and resolves no bearer token, and
\* the stored OAuth2 record is unchanged in memory and on disk.
C4_FailedRefreshAborts ==
    /\ [](\A p \in Procs : C4_AfterFailure(p))
    /\ [][\A p \in Procs : C4_FailingStep(p)]_vars

\* C4 witness: a refresh failed on a success body without refresh_token,
\* with a static token at hand.
C4_Witness ==
    /\ args[Main].cmd = "api"
    /\ pc[Main] = "exiting"
    /\ result[Main] = "Missing refresh_token"
    /\ mem[Main].token # None

\* C5 as claimed: once a refresh has failed, no command obtains an OAuth2
\* bearer token before a new login has completed.
C5_Original == \A p \in Procs : failedRefresh[p] # "no" => ~IsOAuthBearer(p)

\* C5, amended: after a failed refresh the expired record stays in the
\* store, and no command obtains an OAuth2 bearer token before a new login
\* has completed or a later command's refresh has succeeded and been saved;
\* a re-login is not required.
C5_Amended ==
    \A p \in Procs :
        failedRefresh[p] = "failed"
        => /\ ~IsOAuthBearer(p)
           /\ DiskConfig.oauth2 # None
           /\ IsExpired(Unwrap(DiskConfig.oauth2), now)

\* C5 witness: a refresh failed, no login completed since, and a later
\* command holds the OAuth2 bearer token of a retried refresh.
C5_Witness ==
    /\ failedRefresh[Main] = "renewed"
    /\ pc[Main] = "request"
    /\ IsOAuthBearer(Main)
    /\ refreshCalls[Main] = 0

\* C6 as claimed: after `config --token T` has saved, the store holds no
\* OAuth2 record, in memory and on disk, and T is the credential a command
\* started next resolves.
C6_Claim ==
    \A p \in Procs :
        (/\ args[p].cmd = "config"
         /\ args[p].token # None
         /\ pc[p] = "exiting"
         /\ result[p] = "Configuration saved.")
        => /\ mem[p].oauth2 = None
           /\ DiskConfig.oauth2 = None
           /\ GetAccessToken(DiskConfig, now) = args[p].token

\* Every step of a login or API command leaves the file as it is, a failure
\* or a kill included, except the step in which a successful response of the
\* token endpoint is parsed and saved: the file then holds that response's
\* record.  (The `config` command writes the file too; it talks to no
\* provider.)
C7_Step(p) ==
    /\ (args[p].cmd = "login" /\ pc[p] \in {"login", "await_callback"}) => disk' = disk
    /\ (args[p].cmd = "api" /\ pc[p] \in {"gate", "resolve", "request"}) => disk' = disk
    /\ (disk' # disk /\ args[p].cmd \in {"login", "api"} /\ pc'[p] # pc[p])
          => /\ pc[p] \in {"exchanging", "refreshing"}
             /\ resp'[p] # None
             /\ ~Failing(Unwrap(resp'[p]))
             /\ disk' = Save(mem'[p])
             /\ Unwrap(mem'[p].oauth2).access_token
                   = Unwrap(Unwrap(Unwrap(resp'[p]).body).access_token)
             /\ Unwrap(mem'[p].oauth2).refresh_token
                   = Unwrap(Unwrap(Unwrap(resp'[p]).body).refresh_token)

\* The OAuth2 record on disk changes only in the step that saves a
\* successful response of the token endpoint, whatever the command.
C7_RecordStep ==
    (Load(disk', NoEnv).oauth2 # DiskConfig.oauth2)
    => \E p \in Procs :
          /\ pc[p] \in {"exchanging", "refreshing"}
          /\ resp'[p] # None
          /\ ~Failing(Unwrap(resp'[p]))
          /\ Load(disk', NoEnv).oauth2 = mem'[p].oauth2

\* The token record on disk is one response's record: its access token and
\* its refresh token were minted together.
C7_WholeRecord ==
    DiskConfig.oauth2 # None
    => LET oauth2 == Unwrap(DiskConfig.oauth2)
       IN  /\ oauth2.access_token.kind = "access"
           /\ oauth2.refresh_token.kind = "refresh"
           /\ oauth2.access_token.id = oauth2.refresh_token.id
           /\ oauth2.access_token.id \in Gens

\* C7: the config file is written only after a complete successful code
\* exchange or refresh: a login attempt that fails or is killed before the
\* exchange has succeeded leaves the file identical, and the token record on
\* disk never mixes fields of two records.
C7_WrittenOnlyAfterSuccess ==
    /\ []C7_WholeRecord
    /\ [][C7_RecordStep /\ \A p \in Procs : C7_Step(p)]_vars

\* C7 witness: a login failed in the exchange while the file holds the
\* record and the static token of before.
C7_Witness ==
    /\ args[Main].cmd = "login"
    /\ pc[Main] = "exiting"
    /\ result[Main] = "Token exchange failed"
    /\ DiskConfig.oauth2 # None
    /\ DiskConfig.token # None

\* C8 as claimed: once refresh_token has returned, with Ok or with an error,
\* the OAuth2 record in memory equals the one on disk.
C8_Claim ==
    \A p \in Procs :
        (/\ args[p].cmd = "api"
         /\ refreshCalls[p] = 1
         /\ pc[p] \in {"resolve", "request", "exiting"})
        => mem[p].oauth2 = DiskConfig.oauth2

InLogin(p) == pc[p] \in {"await_callback", "exchanging"}

BindError == "Failed to bind to port 7171. Is another instance running?"

\* C10 as claimed: two login attempts never overlap.
C10_Original == \A p, q \in Procs : (p # q /\ InLogin(p)) => ~InLogin(q)

\* The bind of a login started while another attempt holds the listener.
C10_BindStep(q) ==
    (/\ pc[q] = "login"
     /\ \E p \in Procs \ {q} : pc[p] = "await_callback"
     /\ pc'[q] \notin {"login", "exited"})
    => /\ pc'[q] = "exiting"
       /\ result'[q] = BindError
       /\ listener' = listener

\* C10, amended: two login attempts are never both in AwaitingCallback: while
\* one attempt waits for its callback it holds the listener, and a second
\* login process does not get past the bind; it fails with the bind error
\* at once.  Once the first attempt has its callback (ExchangingCode) the
\* port is free, and a second attempt can run alongside.
C10_Amended ==
    /\ [](\A p, q \in Procs : (p # q /\ pc[p] = "await_callback") => pc[q] # "await_callback")
    /\ [](\A p \in Procs : pc[p] = "await_callback" <=> listener = p)
    /\ [][\A q \in Procs : C10_BindStep(q)]_vars

\* C10 witness: the second login failed at the bind while the first waits.
C10_Witness ==
    /\ pc[1] = "await_callback"
    /\ pc[2] = "exiting"
    /\ result[2] = BindError

(* ------------------------- the login attempt -------------------------- *)

\* The callback this login received carries `error` and no `code`.
ErrorCallback(c) == c # None /\ Unwrap(c).line \in {ErrorLine, ErrorLineNoDescription}

\* The failure extract_code_from_request reports for the provider's error
\* access_denied, with the description "User cancelled" and without one.
ProviderFailure(line) ==
    IF line = ErrorLine THEN "Authorization failed: access_denied - User cancelled"
    ELSE "Authorization failed: access_denied - "

\* The step in which a waiting login receives an error-carrying callback
\* ends the attempt with the provider's failure: the command returns that
\* error, the listener is closed, no request is sent and neither the config
\* in memory nor the file changes.
C11_CallbackStep(p) ==
    (pc[p] = "await_callback" /\ ErrorCallback(callback'[p]))
        => /\ pc'[p] = "exiting"
           /\ result'[p] = ProviderFailure(Unwrap(callback'[p]).line)
           /\ Unwrap(callback'[p]).code.error = result'[p]
           /\ listener' = 0
           /\ accepted'[p] = 1
           /\ exchangeCalls'[p] = 0
           /\ sent' = sent
           /\ disk' = disk
           /\ mem' = mem

\* After an error-carrying callback the attempt only ends: the process
\* exits, with nothing more sent, accepted or written.
C11_AfterStep(p) ==
    ErrorCallback(callback[p])
        => /\ pc'[p] \in {"exiting", "exited"}
           /\ exchangeCalls'[p] = 0
           /\ accepted'[p] <= 1
           /\ disk' = disk

\* C11: a callback that carries `error` (with or without
\* error_description) instead of `code` takes the login attempt from
\* AwaitingCallback directly to its end with an authorization failure that
\* carries the provider's error and description: no token-exchange request
\* is sent, nothing is retried, and the store is not modified.
C11_ErrorCallbackEnds ==
    [][\A p \in Procs : C11_CallbackStep(p) /\ C11_AfterStep(p)]_vars

\* A login ended by the callback error=access_denied without a description.
C11_Witness ==
    /\ pc[Main] = "exiting"
    /\ callback[Main] # None
    /\ Unwrap(callback[Main]).line = ErrorLineNoDescription
    /\ result[Main] = "Authorization failed: access_denied - "
    /\ exchangeCalls[Main] = 0

\* A login has at most one accepted connection and one callback result,
\* the result exists exactly when the connection was accepted, and from
\* then on the login holds no listener.
C12_OneConnection(p) ==
    /\ accepted[p] <= 1
    /\ (callback[p] # None) <=> (accepted[p] = 1)
    /\ (pc[p] = "await_callback") => (accepted[p] = 0 /\ listener = p)
    /\ (accepted[p] = 1) => (listener # p /\ pc[p] \in {"exchanging", "exiting"})

\* The result of wait_for_callback is produced once: it stays what it is
\* until the process is gone.
C12_OneResult(p) ==
    (callback[p] # None) => (callback'[p] = callback[p] \/ pc'[p] = "exited")

\* C12: in one login attempt wait_for_callback accepts exactly one inbound
\* connection and produces exactly one callback result (a code or a
\* failure); once it has returned, the listener is closed and no further
\* connection is accepted for that attempt.
C12_OneCallback ==
    /\ [](\A p \in Procs : C12_OneConnection(p))
    /\ [][\A p \in Procs : C12_OneResult(p)]_vars

\* One login exchanges its code, its listener closed, while the other
\* login has bound the port and waits.
C12_Witness ==
    \E p, q \in Procs :
        /\ pc[p] = "exchanging" /\ accepted[p] = 1 /\ Unwrap(callback[p]).code.ok
        /\ pc[q] = "await_callback" /\ listener = q

\* The requests this invocation sent to the token endpoint.
TokenRequests(p) == SelectSeq(sent[p], LAMBDA m : m.to = "token")

\* Where a login attempt is: it waits only after it started, and it
\* exchanges only with the code of the callback it received, in the one
\* request it sent.
C13_Position(p) ==
    /\ (pc[p] \in {"login", "await_callback", "exchanging"}) => (args[p].cmd = "login")
    /\ (pc[p] \in {"login", "await_callback"})
          => (exchangeCalls[p] = 0 /\ TokenRequests(p) = <<>>)
    /\ (exchangeCalls[p] > 0 \/ pc[p] = "exchanging")
          => /\ callback[p] # None
             /\ Unwrap(callback[p]).code.ok
             /\ exchangeCalls[p] = 1
             /\ TokenRequests(p)
                  = <<ExchangeRequest(Unwrap(flow[p]),
                                      Unwrap(Unwrap(callback[p]).code.value))>>

\* The steps of a login attempt follow the order: the wait is entered from
\* the start of the login only, the exchange from the wait only, and the
\* attempt ends from there; the file is written in the step that ends a
\* successful exchange only, and then it holds the record that exchange
\* returned.
C13_Order(p) ==
    /\ (pc'[p] = "await_callback" /\ pc[p] # "await_callback") => pc[p] = "login"
    /\ (pc'[p] = "exchanging" /\ pc[p] # "exchanging") => pc[p] = "await_callback"
    /\ (pc[p] = "exchanging" /\ pc'[p] # "exchanging") => pc'[p] \in {"exiting", "exited"}
    /\ (args[p].cmd = "login" /\ disk' # disk)
          => /\ pc[p] = "exchanging"
             /\ ~Failing(Unwrap(resp'[p]))
             /\ result'[p] = "Authentication successful!"
             /\ Load(disk', NoEnv).oauth2
                  = ExchangeResult(Unwrap(flow[p]).client_id, Unwrap(resp'[p]), now).value
             /\ Load(disk', NoEnv).oauth2 # None

\* C13: every login attempt follows the order Unauthenticated,
\* AwaitingCallback, ExchangingCode, Authenticated: the token-exchange
\* request is sent only after a callback carrying a code was received, and
\* the store gets an OAuth2 record only after that exchange succeeded; no
\* state is skipped and no other transition of a login leads to
\* Authenticated.
C13_LoginOrder ==
    /\ [](\A p \in Procs : C13_Position(p))
    /\ [][\A p \in Procs : C13_Order(p)]_vars

\* A login that went through the wait and the exchange has written the
\* record of the exchange to the store.
C13_Witness ==
    /\ args[Main].cmd = "login"
    /\ pc[Main] = "exiting"
    /\ result[Main] = "Authentication successful!"
    /\ exchangeCalls[Main] = 1
    /\ DiskConfig.oauth2 = mem[Main].oauth2
    /\ DiskConfig.oauth2 # None

(* ---------------------- one check per invocation ---------------------- *)

\* The requests this invocation sent to the resource API.
ApiRequests(p) == SelectSeq(sent[p], LAMBDA m : m.to = "api")

\* An invocation has sent at most one refresh request, every request to
\* the token endpoint comes before every request to the resource API, and
\* every request to the resource API carries the bearer token the
\* invocation resolved.
C14_Requests(p) ==
    /\ refreshCalls[p] <= 1
    /\ Len(TokenRequests(p)) = refreshCalls[p]
    /\ Len(ApiRequests(p)) = apiCalls[p]
    /\ \A i, j \in 1..Len(sent[p]) :
          (sent[p][i].to = "api" /\ sent[p][j].to = "token") => j < i
    /\ (apiCalls[p] > 0) => bearer[p] # None
    /\ \A i \in 1..Len(sent[p]) :
          (sent[p][i].to = "api") => sent[p][i].bearer = Unwrap(bearer[p])

\* The check is made once: the gate is entered at the start of the
\* invocation only, a refresh request is sent from the gate only and before
\* any request to the resource API, and the bearer token, once resolved,
\* stays what it is while the invocation runs, whatever the clock shows.
C14_Once(p) ==
    /\ (pc'[p] = "gate" /\ pc[p] # "gate") => pc[p] = "exited"
    /\ (refreshCalls'[p] > refreshCalls[p]) => (pc[p] = "gate" /\ apiCalls[p] = 0)
    /\ (bearer[p] # None) => (bearer'[p] = bearer[p] \/ pc'[p] = "exited")
    /\ (bearer'[p] # bearer[p] /\ bearer'[p] # None)
          => (pc[p] = "resolve" /\ apiCalls[p] = 0 /\ bearer'[p] = GetAccessToken(mem[p], now))

\* C14: the expiry check and any refresh happen once per command
\* invocation, before the first resource-API request: at most one refresh
\* request is sent per invocation, and every HTTP request of the command,
\* including every poll of `ci wait`, carries the bearer token that was
\* resolved at that single check.
C14_OneCheckPerInvocation ==
    /\ [](\A p \in Procs : C14_Requests(p))
    /\ [][\A p \in Procs : C14_Once(p)]_vars

\* `ci wait` refreshed at the gate, and its last poll carries the access
\* token of that refresh although the record has expired since.
C14_Witness ==
    /\ args[Main].cmd = "wait"
    /\ refreshCalls[Main] = 1
    /\ apiCalls[Main] >= 2
    /\ mem[Main].oauth2 # None
    /\ IsExpired(Unwrap(mem[Main].oauth2), now)
    /\ bearer[Main] = Some(Unwrap(mem[Main].oauth2).access_token)
    /\ sent[Main][Len(sent[Main])].bearer = Unwrap(bearer[Main])

(* -------------------------------- PKCE -------------------------------- *)

\* The file holds the fields of Config and OAuth2Config and no others, and
\* none of its strings is a verifier.
C15_NotPersisted ==
    disk # None
      => LET json == Unwrap(disk)
         IN  /\ DOMAIN json \subseteq {"host", "project", "token", "oauth2"}
             /\ json.host \notin {Some(v) : v \in Verifiers}
             /\ json.project \notin {Some(v) : v \in Verifiers}
             /\ ("oauth2" \in DOMAIN json)
                   => /\ DOMAIN json.oauth2
                          = {"client_id", "access_token", "refresh_token", "expires_at"}
                      /\ json.oauth2.client_id \notin Verifiers

\* What an invocation sent: the authorization URL holds the challenge of
\* this login's verifier and not the verifier; a refresh request has no
\* code_verifier and no verifier among its strings; the exchange request
\* holds the verifier of this login, the one whose challenge the URL of this
\* login carries.
C15_Sent(p) ==
    \A i \in 1..Len(sent[p]) :
        LET m == sent[p][i]
        IN  /\ (m.to = "browser")
                  => /\ flow[p] # None
                     /\ "code_verifier" \notin DOMAIN m.url.query
                     /\ \A k \in DOMAIN m.url.query : m.url.query[k] \notin Verifiers
                     /\ m.url.base \notin Verifiers
                     /\ m.url.query.code_challenge
                          = CodeChallenge(Unwrap(flow[p]).code_verifier)
                     /\ m.url.query.code_challenge_method = "S256"
            /\ (m.to = "token" /\ m.form.grant_type = "refresh_token")
                  => /\ DOMAIN m.form = {"client_id", "refresh_token", "grant_type"}
                     /\ m.form.client_id \notin Verifiers
            /\ (m.to = "token" /\ m.form.grant_type = "authorization_code")
                  => /\ i = 3
                     /\ sent[p][1].to = "browser"
                     /\ m.form.code_verifier = Unwrap(flow[p]).code_verifier
                     /\ CodeChallenge(m.form.code_verifier)
                          = sent[p][1].url.query.code_challenge
            /\ m.to \in {"browser", "callback", "token", "api"}
            /\ (m.to = "callback") => m.page \notin Verifiers

\* C15: the PKCE code verifier is transmitted only in the final
\* token-exchange request: it never appears in the authorization URL (which
\* carries only the challenge derived from it), in the refresh request, or
\* in the persisted config, and the verifier sent in the exchange is the one
\* whose challenge was placed in the authorization URL of the same login
\* attempt.
C15_VerifierOnlyInExchange == C15_NotPersisted /\ \A p \in Procs : C15_Sent(p)

\* A login with the second verifier has sent its exchange request, on a
\* store an earlier login wrote.
C15_Witness ==
    /\ pc[Main] = "exchanging"
    /\ Len(sent[Main]) = 3
    /\ sent[Main][3].form.code_verifier = "AAECAwQFBgcICQoLDA0ODxAREhMUFRYXGBkaGxwdHh8"
    /\ sent[Main][1].url.query.code_challenge = "6oZqdX5MOLq_qBJ8vppAnT4fk6AP8UiP9zX8-Rev_9A"
    /\ DiskConfig.oauth2 # None

(* -------------------------- the token endpoint ------------------------ *)

\* The URL exchange_code posts to in a login for the host `host`.
ExchangeUrl(host) ==
    ExchangeRequest(AuthFlow(host, DefaultClientId,
                             "AQEBAQEBAQEBAQEBAQEBAQEBAQEBAQEBAQEBAQEBAQE"), "abc123").url

\* C16: for every configured host string, including one that ends with a
\* trailing slash, the refresh request is posted to the same token endpoint
\* URL as the code-exchange request for that host ({host}/oauth/token).
C16_Claim ==
    \A p \in Procs : \A i \in 1..Len(sent[p]) :
        (sent[p][i].to = "token" /\ sent[p][i].form.grant_type = "refresh_token")
            => sent[p][i].url = ExchangeUrl(Host(mem[p]))

(* --------------------------- the token record ------------------------- *)

\* parse_token_response has returned a record.
Parsed == output # None /\ Unwrap(output).record.ok

\* The record it returned, the time it was created at and the expires_in of
\* the response it was made from.
ParsedRecord == Unwrap(Unwrap(output).record.value)
ParsedAt == Unwrap(output).at
ParsedExpiresIn == Unwrap(Unwrap(input).response.body).expires_in

\* C17: every OAuth2 token record, whether created by code exchange or by
\* refresh, has expires_at = (time of creation) + expires_in seconds taken
\* from the token response, with 7200 seconds used exactly when the
\* response has no expires_in.
C17_Claim ==
    Parsed => ParsedRecord.expires_at
                = ParsedAt + (IF ParsedExpiresIn = None THEN DefaultExpiresIn
                              ELSE ParsedExpiresIn[1])

\* A record is expired exactly from its expires_at on; one made at T from
\* expires_in = 3600 is good at T and expired at T + 3601, and one made from
\* an integer expires_in is expired exactly from that many seconds after T
\* on.
C18_Expiry ==
    Parsed
      => /\ IsExpired(ParsedRecord, now) <=> (now >= ParsedRecord.expires_at)
         /\ (ParsedExpiresIn = Some(3600))
               => /\ ParsedRecord.expires_at = ParsedAt + 3600
                  /\ (now = ParsedAt) => ~IsExpired(ParsedRecord, now)
                  /\ (now = ParsedAt + 3601) => IsExpired(ParsedRecord, now)
         /\ (ParsedExpiresIn # None /\ Len(ParsedExpiresIn) = 1)
               => (IsExpired(ParsedRecord, now) <=> (now - ParsedAt >= ParsedExpiresIn[1]))

\* C18: for a record created at time T from a response with expires_in =
\* 3600, is_expired() is false immediately at T and true when evaluated at
\* T + 3601s; in general is_expired() is true exactly at the times
\* now >= expires_at and false at every earlier time.
C18_IsExpired == C18_Expiry

\* A record made at time 1 from expires_in = 3600 is looked at 3601 seconds
\* later, and it is expired.
C18_Witness ==
    /\ Parsed
    /\ ParsedExpiresIn = Some(3600)
    /\ ParsedAt = 1
    /\ now = ParsedAt + 3601
    /\ IsExpired(ParsedRecord, now)

(* ------------------------ incomplete responses ------------------------ *)

\* A response with a success status and a JSON body that lacks access_token
\* or refresh_token.
Incomplete(r) ==
    /\ r.status = "success"
    /\ r.body # None
    /\ Unwrap(r.body).access_token = None \/ Unwrap(r.body).refresh_token = None

\* The error parse_token_response names the missing key with.
MissingKey(r) ==
    IF Unwrap(r.body).access_token = None THEN "Missing access_token"
    ELSE "Missing refresh_token"

\* The step in which an incomplete response arrives, at a login or at a
\* refresh: the parse returns the error that names the missing key and no
\* record, the command ends with that error, and the config in memory and
\* the file stay as they are (so the file keeps the record it had, and
\* gets none if it had none).
C19_Step(p) ==
    (resp[p] = None /\ resp'[p] # None /\ Incomplete(Unwrap(resp'[p])))
      => LET r == Unwrap(resp'[p])
             parsed == IF pc[p] = "exchanging"
                       THEN ExchangeResult(DefaultClientId, r, now)
                       ELSE RefreshResult(DefaultClientId, r, now)
         IN  /\ pc[p] \in {"exchanging", "refreshing"}
             /\ ~parsed.ok
             /\ parsed.value = None
             /\ parsed.error = MissingKey(r)
             /\ result'[p] = MissingKey(r)
             /\ pc'[p] = "exiting"
             /\ mem' = mem
             /\ disk' = disk

\* C19: whenever a token response with a success status lacks access_token
\* or refresh_token, parsing fails with a descriptive error and no token
\* record is produced: for the code exchange the store stays without the
\* new record, and for the refresh the previously stored record is left in
\* place unchanged.
C19_IncompleteResponse == [][\A p \in Procs : C19_Step(p)]_vars

\* A refresh got a response without refresh_token: the command ended with the
\* error and the file holds the expired record as before.
C19_Witness ==
    /\ pc[Main] = "exiting"
    /\ refreshCalls[Main] = 1
    /\ result[Main] = "Missing refresh_token"
    /\ resp[Main] # None
    /\ Incomplete(Unwrap(resp[Main]))
    /\ DiskConfig.oauth2 # None
    /\ IsExpired(Unwrap(DiskConfig.oauth2), now)
    /\ DiskConfig.oauth2 = mem[Main].oauth2

(* ------------------------- the callback's query ----------------------- *)

\* The pairs of the request line extract_code_from_request was applied to,
\* and what it returned.
Pairs == Unwrap(input).pairs
Extracted == Unwrap(output)

\* The positions of the pairs with one of the keys
Keyed(keys) == {i \in 1..Len(Pairs) : Pairs[i].key \in keys}

\* The first position in a non-empty set of positions
First(at) == CHOOSE i \in at : \A j \in at : i <= j

\* The failure that carries the provider's error e and the description d
Failure(e, d) == Err("Authorization failed: " \o e \o " - " \o d)

\* The statement as written: a query that contains code=V yields the
\* decoded V, and one that contains error=E and error_description=D and no
\* code yields the failure with E and the decoded D.
C20_Original ==
    output # None
      => /\ (Keyed({"code"}) # {})
               => \E i \in Keyed({"code"}) :
                     Pairs[i].text # None /\ Extracted = Ok(Unwrap(Pairs[i].text))
         /\ (Keyed({"code"}) = {} /\ Keyed({"error"}) # {}
                                   /\ Keyed({"error_description"}) # {})
               => \E i \in Keyed({"error"}), j \in Keyed({"error_description"}) :
                     Pairs[j].text # None
                     /\ Extracted = Failure(Pairs[i].raw, Unwrap(Pairs[j].text))

\* C20 (amended): the first pair of the query whose key is `code` or
\* `error` decides.  If it is code=V the listener yields the
\* percent-decoded V as the authorization code, and a failure when the
\* decoded bytes are not UTF-8; if it is error=E it yields the failure
\* carrying E as written and the percent-decoded D of the first
\* error_description=D pair, with an empty description when there is no such
\* pair or the bytes of D are not UTF-8; with neither key it yields a
\* failure.
C20_Amended ==
    output # None
      => IF Keyed({"code", "error"}) = {}
         THEN ~Extracted.ok /\ Extracted.value = None
         ELSE LET first == Pairs[First(Keyed({"code", "error"}))]
                  described == Keyed({"error_description"})
                  text == IF described = {} THEN None ELSE Pairs[First(described)].text
              IN  IF first.key = "code"
                  THEN IF first.text # None
                       THEN Extracted = Ok(Unwrap(first.text))
                       ELSE ~Extracted.ok /\ Extracted.value = None
                  ELSE Extracted = Failure(first.raw,
                                           IF text = None THEN "" ELSE Unwrap(text))

\* The redirect ?error=access_denied&error_description=User%20cancelled has
\* yielded the failure with "access_denied" and "User cancelled".
C20_Witness ==
    /\ output # None
    /\ Unwrap(input).line
         = "GET /auth/redirect?error=access_denied&error_description=User%20cancelled HTTP/1.1\r\n"
    /\ Extracted = Err("Authorization failed: access_denied - User cancelled")

(* ------------------------ malformed request lines --------------------- *)

\* The callback this login received has fewer than two whitespace-separated
\* tokens, or a path without `?`.
MalformedCallback(c) == c # None /\ Unwrap(c).line \in {EmptyLine, NoQueryLine}

\* The error extract_code_from_request names each of the two with.
ParseFailure(line) ==
    IF line = EmptyLine THEN "Invalid HTTP request" ELSE "No query string in callback"

\* The step in which a waiting login reads such a request line: the
\* listener yields the parse failure and no code, the command ends with
\* that failure, no request is sent and neither the config in memory nor the
\* file changes.
C21_CallbackStep(p) ==
    (pc[p] = "await_callback" /\ MalformedCallback(callback'[p]))
        => LET got == Unwrap(callback'[p])
           IN  /\ ~got.code.ok
               /\ got.code.value = None
               /\ got.code.error = ParseFailure(got.line)
               /\ pc'[p] = "exiting"
               /\ result'[p] = ParseFailure(got.line)
               /\ exchangeCalls'[p] = 0
               /\ sent' = sent
               /\ disk' = disk
               /\ mem' = mem

\* After it the attempt only ends, with no exchange request and the file
\* as it was.
C21_AfterStep(p) ==
    MalformedCallback(callback[p])
        => /\ pc'[p] \in {"exiting", "exited"}
           /\ exchangeCalls'[p] = 0
           /\ TokenRequests(p) = <<>>
           /\ disk' = disk

\* C21: a callback request line with fewer than two whitespace-separated
\* tokens, or whose path contains no `?`, always yields a fatal parse
\* failure: it never yields a code, and the login attempt ends without a
\* token-exchange request and without a store change.
C21_MalformedLineFails ==
    [][\A p \in Procs : C21_CallbackStep(p) /\ C21_AfterStep(p)]_vars

\* A login ended by a request line whose path has no query.
C21_Witness ==
    /\ pc[Main] = "exiting"
    /\ callback[Main] # None
    /\ Unwrap(callback[Main]).line = NoQueryLine
    /\ result[Main] = "No query string in callback"
    /\ exchangeCalls[Main] = 0

(* --------------------------- confirmation page ------------------------ *)

\* The positions of the confirmation page among what process p has sent.
PagesWritten(p) == {i \in DOMAIN sent[p] : sent[p][i] = CallbackPage}

C22_CallbackStep(p) ==
    accepted'[p] = accepted[p] + 1
        => LET got == Unwrap(callback'[p])
           IN  IF got.code.ok
               THEN /\ Len(sent'[p]) = Len(sent[p]) + 2
                    /\ SubSeq(sent'[p], 1, Len(sent[p])) = sent[p]
                    /\ sent'[p][Len(sent[p]) + 1] = CallbackPage
                    /\ sent'[p][Len(sent[p]) + 2].to = "token"
               ELSE /\ sent'[p] = sent[p]
                    /\ pc'[p] = "exiting"
                    /\ result'[p] = got.code.error

NoRecord(p) == pc[p] # "exited" /\ mem[p].oauth2 = None

\* With no record, whatever step is taken sends nothing to the token
\* endpoint and leaves the store and the config in memory as they are; the
\* step that ends the invocation at the refresh is refresh_token's, with its
\* error.
C23_Step(p) ==
    (NoRecord(p) /\ pc'[p] # "exited")
        => /\ NoRecord(p)'
           /\ sent'[p] = sent[p] \/ sent'[p][Len(sent'[p])].to = "api"
           /\ refreshCalls'[p] = 0
           /\ disk' = disk
           /\ mem'[p] = mem[p]
           /\ (pc[p] = "gate" /\ pc'[p] = "exiting")
                 => result'[p] = "No OAuth2 configuration found"

FailedWithStatic(p) ==
    /\ args[p].cmd = "api"
    /\ refreshCalls[p] = 1
    /\ resp[p] # None
    /\ Failing(Unwrap(resp[p]))
    /\ IsSome(mem[p].token)

\* C24: when the stored OAuth2 record is expired and the refresh fails, the
\* command fails even if a static token is also configured (from the config
\* file or GITLAB_TOKEN): the static token is not used as a fallback in that
\* invocation, although get_access_token alone would return it.
C24_NoStaticFallback ==
    \A p \in Procs :
        FailedWithStatic(p)
        => /\ GetAccessToken(mem[p], now) = mem[p].token
           /\ pc[p] = "exiting"
           /\ result[p] \notin {"", "ok"}
           /\ bearer[p] # mem[p].token
           /\ \A i \in DOMAIN sent[p] : sent[p][i].to # "api"

\* The refresh failed on a refused request, with GITLAB_TOKEN set over a
\* file that holds no static token.
C24_Witness ==
    /\ FailedWithStatic(Main)
    /\ Unwrap(resp[Main]).status # "success"
    /\ mem[Main].token = Some(EnvToken)
    /\ DiskConfig.token = None
    /\ result[Main] = "Token refresh failed"

(* --------------------- what a refresh writes to disk ------------------ *)

\* C25, as claimed: a transparent token refresh changes only the OAuth2
\* record of the persisted config: the host, static token and project stored
\* on disk are the same after the refresh as before it, also when
\* GITLAB_TOKEN, GITLAB_HOST or GITLAB_PROJECT are set in the environment of
\* that invocation.
C25_Claim ==
    [][\A p \in Procs :
          (pc[p] = "refreshing" /\ disk' # disk)
              => /\ DiskConfig'.host = DiskConfig.host
                 /\ DiskConfig'.token = DiskConfig.token
                 /\ DiskConfig'.project = DiskConfig.project]_vars

(* ------------------------------ empty code ---------------------------- *)

\* C26, as claimed: the listener never reports success with an empty
\* authorization code: a callback whose `code` parameter has an empty value
\* (`?code=`) is rejected as a failure, so that no token-exchange request is
\* sent with an empty code.
C26_Claim ==
    output # None => ~(Extracted.ok /\ Extracted.value = Some(""))

(* ----------------------- what a login writes -------------------------- *)

\* The step in which the login of p gets the token endpoint's response and
\* returns: after a failing response nothing has changed, in memory or on
\* disk; on success the file is what the config in memory now is, without
\* a static token, with the record of the response and with the --host
\* value when one was given.
C27_ExchangeStep(p) ==
    (pc[p] = "exchanging" /\ pc'[p] = "exiting")
        => LET response == Unwrap(resp'[p])
           IN  IF Failing(response)
               THEN /\ mem' = mem
                    /\ disk' = disk
                    /\ result'[p] # "Authentication successful!"
               ELSE /\ mem'[p].token = None
                    /\ mem'[p].project = mem[p].project
                    /\ mem'[p].host = IF args[p].host # None THEN args[p].host
                                      ELSE mem[p].host
                    /\ mem'[p].oauth2 # None
                    /\ Unwrap(mem'[p].oauth2).client_id = Unwrap(flow[p]).client_id
                    /\ Some(Unwrap(mem'[p].oauth2).access_token)
                          = Unwrap(response.body).access_token
                    /\ Some(Unwrap(mem'[p].oauth2).refresh_token)
                          = Unwrap(response.body).refresh_token
                    /\ IF result'[p] = "Authentication successful!"
                       THEN DiskConfig' = mem'[p]
                       ELSE disk' = disk

\* A login changes the file in that step only, and only when it succeeds.
C27_OneSave(p) ==
    (args[p].cmd = "login" /\ pc[p] # "exited" /\ disk' # disk)
        => /\ pc[p] = "exchanging"
           /\ result'[p] = "Authentication successful!"

\* C27: a successful OAuth2 login removes any static token from the store
\* and installs the record returned by the exchange (plus the --host value
\* when given) in one save; none of these three changes is made, in memory
\* or on disk, when the exchange fails.
C27_LoginWritesOnce ==
    [][\A p \in Procs : C27_ExchangeStep(p) /\ C27_OneSave(p)]_vars

\* A login with --host has succeeded: the file holds the host and the
\* record and no static token.
C27_Witness ==
    /\ args[Main].cmd = "login"
    /\ args[Main].host = Some(CliHost)
    /\ pc[Main] = "exiting"
    /\ result[Main] = "Authentication successful!"
    /\ DiskConfig.token = None
    /\ DiskConfig.host = Some(CliHost)
    /\ DiskConfig.oauth2 # None

(* ------------------------------ ci wait ------------------------------- *)

\* p is in the loop of `ci wait`.
Polling(p) == args[p].cmd = "wait" /\ pc[p] = "request"

\* A turn of the loop: a request was counted, or the command ended.
Polled(p) ==
    /\ Polling(p)
    /\ pc'[p] # "exited"
    /\ (apiCalls'[p] # apiCalls[p] \/ pc'[p] = "exiting")

\* The statuses the claim names.
SleepStatuses ==
    {"running", "pending", "created", "waiting_for_resource", "preparing", "scheduled"}
ErrorStatuses == {"failed", "canceled", "skipped"}

\* What the pipeline the poll got says.
Observed == IF pipeline = None THEN "unknown" ELSE pipeline[1]

C28_Turn(p) ==
    Polled(p)
        => /\ (result'[p] = "ok") => (Observed = "success" /\ pc'[p] = "exiting")
           /\ (Observed \in ErrorStatuses)
                 => (pc'[p] = "exiting" /\ result'[p] \in {"Pipeline #1 " \o Observed, "HTTP error"})
           /\ (Observed \notin SleepStatuses \cup ErrorStatuses \cup {"success"})
                 => /\ pc'[p] = "exiting"
                    /\ result'[p] \in {"Unknown pipeline status: " \o Observed, "HTTP error"}
           /\ (pc'[p] = "request") => (Observed \in SleepStatuses /\ result'[p] = result[p])
           /\ (Observed = "success") => (pc'[p] = "exiting" /\ result'[p] \in {"ok", "HTTP error"})

\* C28: `ci wait` returns success only if the last pipeline status it
\* observed is `success`; it returns an error for `failed`, `canceled`,
\* `skipped` and for any status outside the known set, and it sleeps and
\* polls again only for running, pending, created, waiting_for_resource,
\* preparing and scheduled.
C28_WaitOutcome ==
    /\ [](\A p \in Procs : (args[p].cmd = "wait" /\ result[p] = "ok") => pc[p] = "exiting")
    /\ [][\A p \in Procs : C28_Turn(p)]_vars

\* After a poll that let it sleep, `ci wait` has polled again and failed on
\* a status outside the known set.
C28_Witness ==
    /\ args[Main].cmd = "wait"
    /\ pc[Main] = "exiting"
    /\ apiCalls[Main] >= 2
    /\ pipeline = Some("manual")
    /\ result[Main] = "Unknown pipeline status: manual"

(* ------------------------ ci wait: termination ------------------------ *)

\* The pipeline is in one of the statuses `ci wait` sleeps on.
InProgressNow == Observed \in SleepStatuses

\* While the loop runs the next request is always possible, whatever the
\* number of polls and the time that has passed.
C29_NoLimit == \A p \in {Main} : Polling(p) => ENABLED Poll(p)

\* A turn of the loop that sees an in-progress status stays in the loop
\* unless the request failed.
C29_KeepsPolling(p) ==
    (Polled(p) /\ InProgressNow)
        => (pc'[p] = "request" \/ result'[p] = "HTTP error")

\* A turn that ends the command ends it on a status that is not in
\* progress or on a failed request.
C29_Ends(p) ==
    (Polled(p) /\ pc'[p] = "exiting")
        => (~InProgressNow \/ result'[p] = "HTTP error")

\* C29: if the polled pipeline eventually reaches and keeps a status that
\* is not one of the in-progress statuses, or any poll request fails,
\* `ci wait` eventually terminates; it has no timeout or poll limit, so it
\* keeps polling for as long as every observed status is in-progress.
C29_WaitTerminates ==
    /\ (<>[]~InProgressNow) => [](Polling(Main) => <>~Polling(Main))
    /\ []C29_NoLimit
    /\ [][\A p \in Procs : C29_KeepsPolling(p) /\ C29_Ends(p)]_vars

\* The loop has run for as many polls as the model counts and goes on, the
\* pipeline still running.
C29_Witness ==
    /\ Polling(Main)
    /\ apiCalls[Main] = MaxPolls
    /\ pipeline = Some("running")

(* ----------------------------- mr automerge -------------------------- *)

\* The error texts with 405 in them, and those without.
With405 == {"HTTP 405 Method Not Allowed: ", "HTTP 404 Not Found: no merge request 405"}
Without405 == {"Failed to send request", "HTTP 401 Unauthorized: "}

\* p runs `mr automerge`.
Merging(p) == args[p].cmd = "automerge" /\ pc[p] # "exited"

\* A request of set_automerge and what follows it: success ends the
\* command; an error without 405 ends it with that error at once; after an
\* error with 405 the command goes on only if this was the first or the
\* second request, and ends with the error if it was the third.
C30_Attempt(p) ==
    (Merging(p) /\ apiCalls'[p] = apiCalls[p] + 1)
        => /\ pc[p] = "request"
           /\ apiCalls[p] < 3
           /\ Len(sent'[p]) = Len(sent[p]) + 1
           /\ IF pc'[p] = "request"
              THEN /\ apiCalls[p] \in {0, 1}
                   /\ last_error'[p] # None
                   /\ Unwrap(last_error'[p]) \in With405
                   /\ result'[p] = result[p]
              ELSE /\ pc'[p] = "exiting"
                   /\ result'[p] \in {"ok"} \cup Without405 \cup With405
                   /\ (result'[p] \in With405) => apiCalls[p] = 2
                   /\ last_error'[p] = last_error[p]

\* Every request to the resource API is counted, and there are at most
\* three.
C30_AtMostThree(p) ==
    Merging(p)
        => /\ apiCalls[p] <= 3
           /\ Len(ApiRequests(p)) = apiCalls[p]
           /\ (pc[p] = "request") => apiCalls[p] < 3

\* C30: `mr automerge` sends at most 3 set_automerge requests and always
\* terminates: it stops with success at the first successful request, fails
\* immediately on an error whose text does not contain 405, retries (after
\* a 10 s sleep) after a 405 error only on the first and second attempt, and
\* returns the error when the third attempt fails.
C30_AutomergeRetries ==
    /\ [](\A p \in Procs : C30_AtMostThree(p))
    /\ [][\A p \in Procs : C30_Attempt(p)]_vars
    /\ [](Running(Main) => <>~Running(Main))

\* The third request was answered with 405 like the two before it, and the
\* command ends with that error.
C30_Witness ==
    /\ args[Main].cmd = "automerge"
    /\ pc[Main] = "exiting"
    /\ apiCalls[Main] = 3
    /\ result[Main] = "HTTP 405 Method Not Allowed: "
    /\ last_error[Main] = Some("HTTP 405 Method Not Allowed: ")

====
